---- MODULE Spec2Model ----
(***************************************************************************)
(* Overlay generators of the ticket / control-slip repository.             *)
(*                                                                         *)
(* Four programs walk a coordinate map and emit drawing instructions:      *)
(*   "ticket"   src/src/gera_ticket.py     main                            *)
(*   "controle" src/src/gera_controle.py   main / gerar_overlay_controle   *)
(*   "overlay"  src/gera_controle.py       main / gerar_overlay/draw_value *)
(*   "valida"   src/src/valida_layout.py   main                            *)
(* One run is modelled as a state machine: a setup step (page size, scale, *)
(* right column), one step per entry of the coordinate map, the save of    *)
(* the overlay, the merge onto the background, the write of the output     *)
(* file and the removal of the temporary overlay (Spec). Two runs sharing  *)
(* one file system are modelled by SpecConc, and the form application     *)
(* that launches the generators (src/app.py) by SpecApp.                   *)
(* Python floats are modelled as exact rationals <<num, den>>.             *)
(***************************************************************************)
EXTENDS Integers, Sequences, FiniteSets, TLC

(***************************************************************************)
(* Bounds of the explored input space.                                     *)
(***************************************************************************)
MaxFields == 2      \* entries of the coordinate map in a resolution run
MaxVars == 2        \* entries of the values map in a resolution run

(***************************************************************************)
(* Rational arithmetic (the model of Python's float arithmetic).           *)
(***************************************************************************)
Abs(n) == IF n < 0 THEN -n ELSE n

RECURSIVE Gcd(_, _)
Gcd(a, b) == IF b = 0 THEN a ELSE Gcd(b, a % b)

Rat(n, d) ==
    LET s == IF d < 0 THEN -1 ELSE 1
        g == Gcd(Abs(n), Abs(d))
    IN  <<(s * n) \div g, (s * d) \div g>>

R(n) == <<n, 1>>
RAdd(a, b) == Rat(a[1] * b[2] + b[1] * a[2], a[2] * b[2])
RSub(a, b) == Rat(a[1] * b[2] - b[1] * a[2], a[2] * b[2])
RMul(a, b) == Rat(a[1] * b[1], a[2] * b[2])
RDiv(a, b) == Rat(a[1] * b[2], a[2] * b[1])
RLt(a, b) == a[1] * b[2] < b[1] * a[2]
RIsZero(a) == a[1] = 0

\* max(xs) of a non-empty set of rationals
RMaxOf(S) == CHOOSE m \in S : \A o \in S : ~RLt(m, o)

(***************************************************************************)
(* Strings: str.startswith, str.strip, str.lower.                          *)
(***************************************************************************)
\* startswith testing for the prefix of the two reference dimensions only
startswith_ref(s, p) ==
    Len(s) >= Len(p) + 3 /\ SubSeq(s, 1, Len(p) + 3) = p \o "ref"

startswith(s, p) == Len(s) >= Len(p) /\ SubSeq(s, 1, Len(p)) = p

RECURSIVE strip(_)
strip(s) ==
    IF Len(s) = 0 THEN s
    ELSE IF SubSeq(s, 1, 1) = " " THEN strip(SubSeq(s, 2, Len(s)))
    ELSE IF SubSeq(s, Len(s), Len(s)) = " " THEN strip(SubSeq(s, 1, Len(s) - 1))
    ELSE s

\* "not text.strip()"
IsBlank(s) == strip(s) = ""

LowerOf(ch) ==
    CASE ch = "A" -> "a" [] ch = "B" -> "b" [] ch = "C" -> "c" [] ch = "D" -> "d"
      [] ch = "E" -> "e" [] ch = "F" -> "f" [] ch = "G" -> "g" [] ch = "H" -> "h"
      [] ch = "I" -> "i" [] ch = "J" -> "j" [] ch = "K" -> "k" [] ch = "L" -> "l"
      [] ch = "M" -> "m" [] ch = "N" -> "n" [] ch = "O" -> "o" [] ch = "P" -> "p"
      [] ch = "Q" -> "q" [] ch = "R" -> "r" [] ch = "S" -> "s" [] ch = "T" -> "t"
      [] ch = "U" -> "u" [] ch = "V" -> "v" [] ch = "W" -> "w" [] ch = "X" -> "x"
      [] ch = "Y" -> "y" [] ch = "Z" -> "z" [] OTHER -> ch

RECURSIVE lower(_)
lower(s) ==
    IF Len(s) = 0 THEN s
    ELSE LowerOf(SubSeq(s, 1, 1)) \o lower(SubSeq(s, 2, Len(s)))

(***************************************************************************)
(* Key derivation used by the specification's resolution chain: the base   *)
(* key of a field name (trailing "_<digits>" and "_valor" removed).        *)
(***************************************************************************)
endswith(s, p) == Len(s) >= Len(p) /\ SubSeq(s, Len(s) - Len(p) + 1, Len(s)) = p

IsDigit(ch) == ch \in {"0", "1", "2", "3", "4", "5", "6", "7", "8", "9"}

\* length of the trailing "_<digits>" suffix of s, 0 when there is none
RECURSIVE IndexSuffixLen(_, _)
IndexSuffixLen(s, n) ==
    IF n >= Len(s) THEN 0
    ELSE LET ch == SubSeq(s, Len(s) - n, Len(s) - n)
         IN  IF IsDigit(ch) THEN IndexSuffixLen(s, n + 1)
             ELSE IF ch = "_" /\ n > 0 THEN n + 1
             ELSE 0

HasIndex(s) == IndexSuffixLen(s, 0) > 0

BaseKey(s) ==
    LET t == SubSeq(s, 1, Len(s) - IndexSuffixLen(s, 0))
    IN  IF endswith(t, "_valor") THEN SubSeq(t, 1, Len(t) - 6) ELSE t

(***************************************************************************)
(* Python dict access and Optional values.                                 *)
(***************************************************************************)
\* d.get(k, default)
Get(d, k, default) == IF k \in DOMAIN d THEN d[k] ELSE default

\* Optional[str]: <<>> is None, <<v>> is the string v
None == <<>>
Some(v) == <<v>>

(***************************************************************************)
(* Static tables of the generators.                                        *)
(***************************************************************************)
RIGHT_KEYS ==
    {"tarifa_valor", "taxa_embarque_valor", "pedagio_valor",
     "valor_total_valor", "desconto_valor", "valor_a_pagar_valor",
     "valor_pag_valor", "troco_valor"}

KEY_MAP ==
    [bpe_numero_valor    |-> <<"bpe_numero">>,
     bpe_serie_valor     |-> <<"bpe_serie">>,
     venda_valor         |-> <<"venda", "venda:">>,
     origem_valor        |-> <<"origem">>,
     destino_valor       |-> <<"destino">>,
     data_valor          |-> <<"data">>,
     horario_valor       |-> <<"horario", "hora">>,
     poltrona_valor      |-> <<"poltrona">>,
     plataforma_valor    |-> <<"plataforma">>,
     prefixo_valor       |-> <<"prefixo">>,
     linha_valor_1       |-> <<"linha1", "linha">>,
     linha_valor_2       |-> <<"linha2">>,
     tipo_valor          |-> <<"tipo">>,
     tarifa_valor        |-> <<"tarifa">>,
     taxa_embarque_valor |-> <<"taxa_embarque">>,
     pedagio_valor       |-> <<"pedagio">>,
     valor_total_valor   |-> <<"valor_total">>,
     desconto_valor      |-> <<"desconto">>,
     valor_a_pagar_valor |-> <<"valor_pagar">>,
     forma_pag_valor     |-> <<"forma_pag">>,
     valor_pag_valor     |-> <<"valor_pag">>,
     troco_valor         |-> <<"troco">>,
     passageiro_valor_1  |-> <<"passageiro_cpf_nome">>,
     passageiro_valor_2  |-> <<"passageiro_sobrenome">>,
     bpe_numero_pequeno  |-> <<"bpe_numero">>,
     bpe_serie_pequeno   |-> <<"bpe_serie">>,
     geracao_horario     |-> <<"horario", "hora">>]

VAR_MAP ==
    [origem_valor       |-> "origem",
     destino_valor      |-> "destino",
     data_valor         |-> "data",
     horario_valor      |-> "hora",
     poltrona_valor     |-> "poltrona",
     plataforma_valor   |-> "plataforma",
     prefixo_valor      |-> "prefixo",
     linha_valor_1      |-> "linha1",
     linha_valor_2      |-> "linha2",
     tipo_valor         |-> "tipo",
     passageiro_valor_1 |-> "passageiro",
     passageiro_valor_2 |-> "passageiro_2"]

\* reportlab.lib.units.mm = 72 / 25.4 points
mm == Rat(360, 127)

\* reportlab.lib.pagesizes.A4 in mm (A4[0] / mm, A4[1] / mm)
A4 == <<R(210), R(297)>>

DEFAULT_W_MM == 80
DEFAULT_H_MM == 130

\* pdfmetrics.getRegisteredFontNames(): the faces a fresh canvas knows
RegisteredFonts == {"Helvetica", "Helvetica-Bold"}

\* pdfmetrics.stringWidth(text, font, pt): every glyph taken half an em wide
stringWidth(text, font, pt) == RMul(R(Len(text)), RDiv(pt, R(2)))

(***************************************************************************)
(* State of one generation run.                                            *)
(***************************************************************************)
VARIABLES
    gen,        \* which program runs
    coords,     \* coordinate/style map: the items of the JSON object, in order
    vars_data,  \* values map (ticket.json / controle.json)
    bg,         \* background PDF: [ok, w, h], page size in points
    args,       \* command line: [invert_y, proof, baseline_fix, keep]
    pc,         \* position of the run: start, loop, saved, merged, written, done, failed
    i,          \* index of the next item of coords.items()
    page,       \* <<page_w, page_h>> once measured
    scale,      \* <<sx, sy>>
    col_r,      \* x of the right column (ticket)
    canvas,     \* drawing instructions emitted so far, in order
    warned,     \* the A4 fallback warning was printed (overlay)
    tmp,        \* the temporary overlay file: absent, empty, written
    out,        \* the file at the output path: absent, partial, final
    procs,      \* concurrent runs: per process [gen, out_path, pc, ov]
    files,      \* the file system concurrent runs share: path -> content
    exists,     \* form application: the project paths that exist
    form,       \* per tab, the texts of the form's fields (JsonForm.fields)
    json,       \* per tab, the content of the values file
    opts,       \* the option widgets: [basefix, proof, invertY_ticket, invertY_ctrl]
    dialog,     \* the title of the last message box shown
    cmd,        \* the command line of the last subprocess.run
    launches    \* how many generator processes were started

vars == <<gen, coords, vars_data, bg, args, pc, i, page, scale, col_r, canvas, warned,
         tmp, out, procs, files, exists, form, json, opts, dialog, cmd, launches>>

\* the state of the form application
AppVars == <<exists, form, json, opts, dialog, cmd, launches>>

\* A drawing instruction of the reportlab canvas.
Instr(op, name, text, x, y, font, pt, w, h, dash) ==
    [op |-> op, name |-> name, text |-> text, x |-> x, y |-> y,
     font |-> font, pt |-> pt, w |-> w, h |-> h, dash |-> dash]

\* An item of the coordinate map: a field record (a dict) or a bare number.
Field(name, meta) == [name |-> name, isdict |-> TRUE, num |-> 0, meta |-> meta]
Number(name, n) == [name |-> name, isdict |-> FALSE, num |-> n, meta |-> [k \in {} |-> ""]]

\* An item whose value is a list of lists of field names (a table of groups).
Table(name, rows) == [name |-> name, isdict |-> FALSE, num |-> 0, meta |-> [rows |-> rows]]

\* the groups a coordinate map declares under "_groups" (none when it has no such entry)
Groups(c) ==
    IF \E k \in DOMAIN c : c[k].name = "_groups"
    THEN c[CHOOSE k \in DOMAIN c : c[k].name = "_groups"].meta["rows"]
    ELSE << >>
GroupMembers(c) == UNION {{Groups(c)[g][m] : m \in DOMAIN Groups(c)[g]} : g \in DOMAIN Groups(c)}

Keys(c) == {c[k].name : k \in DOMAIN c}
Item(c, name) == c[CHOOSE k \in DOMAIN c : c[k].name = name]

\* float(coords.get(key, default)) for the document-level numbers
CoordsNum(c, key, default) ==
    IF key \in Keys(c) THEN R(Item(c, key).num) ELSE default

(***************************************************************************)
(* src/src/gera_ticket.py                                                  *)
(***************************************************************************)
baseline_fix(pt, factor) == RMul(factor, pt)

\* get_first stopping at the first key that exists, blank or not
get_first_any(vd, keys) ==
    LET hit == {k \in DOMAIN keys : keys[k] \in DOMAIN vd}
    IN  IF hit = {} THEN None
        ELSE Some(vd[keys[CHOOSE k \in hit : \A o \in hit : k <= o]])

\* get_first returning the last usable key instead of the first
get_first_last(vd, keys) ==
    LET hit == {k \in DOMAIN keys : keys[k] \in DOMAIN vd /\ ~IsBlank(vd[keys[k]])}
    IN  IF hit = {} THEN None
        ELSE Some(vd[keys[CHOOSE k \in hit : \A o \in hit : k >= o]])

get_first(vd, keys) ==
    LET hit == {k \in DOMAIN keys : keys[k] \in DOMAIN vd /\ ~IsBlank(vd[keys[k]])}
    IN  IF hit = {} THEN None
        ELSE Some(vd[keys[CHOOSE k \in hit : \A o \in hit : k <= o]])

\* compute_col_r taking the leftmost position instead of the rightmost
compute_col_r_min(c, sx, page_w) ==
    LET xs == {RMul(R(Get(Item(c, k).meta, "pos", <<0, 0>>)[1]), sx) :
                 k \in {n \in RIGHT_KEYS \cap Keys(c) :
                          /\ Item(c, n).isdict
                          /\ "pos" \in DOMAIN Item(c, n).meta
                          /\ Len(Item(c, n).meta["pos"]) >= 1}}
    IN  IF xs # {} THEN CHOOSE m \in xs : \A o \in xs : ~RLt(o, m)
        ELSE RMul(Rat(89, 100), page_w)

compute_col_r(c, sx, page_w) ==
    LET xs == {RMul(R(Get(Item(c, k).meta, "pos", <<0, 0>>)[1]), sx) :
                 k \in {n \in RIGHT_KEYS \cap Keys(c) :
                          /\ Item(c, n).isdict
                          /\ "pos" \in DOMAIN Item(c, n).meta
                          /\ Len(Item(c, n).meta["pos"]) >= 1}}
    IN  IF xs # {} THEN RMaxOf(xs) ELSE RMul(Rat(89, 100), page_w)

\* font actually selected by "try: c.setFont(font, pt) except: c.setFont('Helvetica', pt)"
FontOrDefault(font) == IF font \in RegisteredFonts THEN font ELSE "Helvetica"

\* draw_text ignoring the alignment of the field
draw_text_left(name, text, x, y, font, pt, align) ==
    Instr("drawString", name, text, x, y, FontOrDefault(font), pt, R(0), R(0), FALSE)

\* draw_text / draw_text_pt: one string instruction, chosen by the alignment
draw_text(name, text, x, y, font, pt, align) ==
    LET a == lower(IF align = "" THEN "left" ELSE align)
        op == IF a = "right" THEN "drawRightString"
              ELSE IF a = "center" THEN "drawCentredString"
              ELSE "drawString"
    IN  Instr(op, name, text, x, y, FontOrDefault(font), pt, R(0), R(0), FALSE)

\* the scale if a missing reference dimension reset only its own axis
TicketScale_per_axis(c, pg) ==
    LET ref_w == CoordsNum(c, "_ref_width", R(0))
        ref_h == CoordsNum(c, "_ref_height", R(0))
    IN  << IF RIsZero(ref_w) THEN R(1) ELSE RDiv(pg[1], ref_w),
           IF RIsZero(ref_h) THEN R(1) ELSE RDiv(pg[2], ref_h) >>

\* main, lines 131-137: <<sx, sy>>
TicketScale(c, pg) ==
    LET ref_w == CoordsNum(c, "_ref_width", R(0))
        ref_h == CoordsNum(c, "_ref_height", R(0))
        rw == IF RIsZero(ref_w) \/ RIsZero(ref_h) THEN pg[1] ELSE ref_w
        rh == IF RIsZero(ref_w) \/ RIsZero(ref_h) THEN pg[2] ELSE ref_h
    IN  <<RDiv(pg[1], rw), RDiv(pg[2], rh)>>

\* the text of one field if the field's own name were consulted before the aliases
TicketText_own_name(name, meta, vd) ==
    IF name \in DOMAIN vd /\ ~IsBlank(vd[name]) THEN vd[name]
    ELSE IF name \in DOMAIN KEY_MAP /\ get_first(vd, KEY_MAP[name]) # None
    THEN get_first(vd, KEY_MAP[name])[1]
    ELSE IF name = "linha_valor_2" THEN ""
    ELSE Get(meta, "texto", "")

\* the text of one field with a fallback to the base key before the default
TicketText_base_key(name, meta, vd) ==
    LET v == IF name \in DOMAIN KEY_MAP THEN get_first(vd, KEY_MAP[name]) ELSE None
    IN  IF v # None THEN v[1]
        ELSE IF name = "linha_valor_2" THEN ""
        ELSE IF BaseKey(name) \in DOMAIN vd /\ ~IsBlank(vd[BaseKey(name)])
        THEN vd[BaseKey(name)]
        ELSE Get(meta, "texto", "")

\* the text of one field without the special case of linha_valor_2
TicketText_inherit(name, meta, vd) ==
    LET v == IF name \in DOMAIN KEY_MAP THEN get_first(vd, KEY_MAP[name]) ELSE None
    IN  IF v # None THEN v[1] ELSE Get(meta, "texto", "")

\* the text of one field if linha_valor_2 fell back to "linha" as linha_valor_1 does
TicketText_linha_fallback(name, meta, vd) ==
    LET text == Get(meta, "texto", "")
        keys == IF name = "linha_valor_2" THEN <<"linha2", "linha">>
                ELSE IF name \in DOMAIN KEY_MAP THEN KEY_MAP[name] ELSE << >>
        v == get_first(vd, keys)
    IN  IF name = "linha_valor_2" /\ v = None THEN ""
        ELSE IF v # None THEN v[1]
        ELSE text

\* main, lines 147-157: the text of one field
TicketText(name, meta, vd) ==
    LET text == Get(meta, "texto", "")
        v == IF name \in DOMAIN KEY_MAP THEN get_first(vd, KEY_MAP[name]) ELSE None
    IN  IF name \in DOMAIN KEY_MAP /\ name = "linha_valor_2" /\ v = None THEN ""
        ELSE IF v # None THEN v[1]
        ELSE text

\* the position of one field if the baseline correction were added
TicketXY_add_baseline(meta, sc, pg, a) ==
    LET pos == Get(meta, "pos", <<0, 0>>)
        pt == R(Get(meta, "pt", 22))
        Y0 == RMul(R(pos[2]), sc[2])
        Y1 == IF a.invert_y THEN RSub(pg[2], Y0) ELSE Y0
    IN  <<RMul(R(pos[1]), sc[1]), RAdd(Y1, baseline_fix(pt, a.baseline_fix))>>

\* the position of one field if the offsets dx, dy of its record were applied
TicketXY_offsets(meta, sc, pg, a) ==
    LET pos == Get(meta, "pos", <<0, 0>>)
        pt == R(Get(meta, "pt", 22))
        dx == RMul(R(Get(meta, "dx", 0)), sc[1])
        dy == RMul(R(Get(meta, "dy", 0)), sc[2])
        Y0 == RMul(R(pos[2]), sc[2])
        Y1 == IF a.invert_y THEN RSub(pg[2], Y0) ELSE Y0
        Y2 == RSub(Y1, baseline_fix(pt, a.baseline_fix))
    IN  <<RAdd(RMul(R(pos[1]), sc[1]), dx),
          IF a.invert_y THEN RSub(Y2, dy) ELSE RAdd(Y2, dy)>>

\* the position of one field if the correction were added when y is not inverted
TicketXY_signed_baseline(meta, sc, pg, a) ==
    LET pos == Get(meta, "pos", <<0, 0>>)
        pt == R(Get(meta, "pt", 22))
        Y0 == RMul(R(pos[2]), sc[2])
    IN  <<RMul(R(pos[1]), sc[1]),
          IF a.invert_y THEN RSub(RSub(pg[2], Y0), baseline_fix(pt, a.baseline_fix))
          ELSE RAdd(Y0, baseline_fix(pt, a.baseline_fix))>>

\* the position of one field if y were inverted whatever the command line says
TicketXY_always_invert(meta, sc, pg, a) ==
    LET pos == Get(meta, "pos", <<0, 0>>)
        pt == R(Get(meta, "pt", 22))
        Y0 == RMul(R(pos[2]), sc[2])
    IN  <<RMul(R(pos[1]), sc[1]), RSub(RSub(pg[2], Y0), baseline_fix(pt, a.baseline_fix))>>

\* the position of one field if y were inverted before being scaled
TicketXY_invert_before_scale(meta, sc, pg, a) ==
    LET pos == Get(meta, "pos", <<0, 0>>)
        pt == R(Get(meta, "pt", 22))
        Y0 == IF a.invert_y THEN RSub(pg[2], R(pos[2])) ELSE R(pos[2])
    IN  <<RMul(R(pos[1]), sc[1]), RSub(RMul(Y0, sc[2]), baseline_fix(pt, a.baseline_fix))>>

\* main, lines 162-173: <<X, Y>> of one field
TicketXY(meta, sc, pg, a) ==
    LET pos == Get(meta, "pos", <<0, 0>>)
        pt == R(Get(meta, "pt", 22))
        X == RMul(R(pos[1]), sc[1])
        Y0 == RMul(R(pos[2]), sc[2])
        Y1 == IF a.invert_y THEN RSub(pg[2], Y0) ELSE Y0
    IN  <<X, RSub(Y1, baseline_fix(pt, a.baseline_fix))>>

\* the proof shapes of a drawn field without the dashed box
TicketProof_marker_only(name, meta, text, X, Y, colr) ==
    LET anchor_x == IF name \in RIGHT_KEYS THEN colr ELSE X
    IN  << Instr("rect", name, "", RSub(anchor_x, Rat(3, 2)), RSub(Y, Rat(3, 2)),
                 "", R(0), R(3), R(3), FALSE) >>

\* main, lines 184-205: the proof marker and the dashed box of a drawn field
TicketProof(name, meta, text, X, Y, colr) ==
    LET font == Get(meta, "font", "Helvetica")
        pt == R(Get(meta, "pt", 22))
        align == Get(meta, "align", "left")
        anchor_x == IF name \in RIGHT_KEYS THEN colr ELSE X
        w == stringWidth(text, FontOrDefault(font), pt)
        x_box == IF name \in RIGHT_KEYS THEN RSub(colr, w)
                 ELSE IF align = "center" THEN RSub(X, RDiv(w, R(2)))
                 ELSE IF align = "right" THEN RSub(X, w)
                 ELSE X
    IN  << Instr("rect", name, "", RSub(anchor_x, Rat(3, 2)), RSub(Y, Rat(3, 2)),
                 "", R(0), R(3), R(3), FALSE),
           Instr("rect", name, "", RSub(x_box, R(2)), RSub(Y, R(2)),
                 "", R(0), RAdd(w, R(4)), RAdd(pt, R(4)), TRUE) >>

\* the instructions of one field if the members of a declared group were left
\* to a group pass
TicketDraw_skip_grouped(name, meta, vd, sc, pg, colr, a) ==
    LET text == TicketText(name, meta, vd)
        font == Get(meta, "font", "Helvetica")
        pt == R(Get(meta, "pt", 22))
        align == Get(meta, "align", "left")
        xy == TicketXY(meta, sc, pg, a)
    IN  IF IsBlank(text) \/ name \in GroupMembers(coords) THEN << >>
        ELSE << IF name \in RIGHT_KEYS
                THEN draw_text(name, text, colr, xy[2], font, pt, "right")
                ELSE draw_text(name, text, xy[1], xy[2], font, pt, align) >>

\* main, lines 147-205: everything one field adds to the canvas
TicketDraw(name, meta, vd, sc, pg, colr, a) ==
    LET text == TicketText(name, meta, vd)
        font == Get(meta, "font", "Helvetica")
        pt == R(Get(meta, "pt", 22))
        align == Get(meta, "align", "left")
        xy == TicketXY(meta, sc, pg, a)
    IN  IF IsBlank(text) THEN << >>
        ELSE << IF name \in RIGHT_KEYS
                THEN draw_text(name, text, colr, xy[2], font, pt, "right")
                ELSE draw_text(name, text, xy[1], xy[2], font, pt, align) >>
             \o (IF a.proof THEN TicketProof(name, meta, text, xy[1], xy[2], colr)
                 ELSE << >>)

\* main, lines 116-141: read the page size, compute the scale and the column
TicketSetup ==
    /\ gen = "ticket" /\ pc = "start"
    /\ IF bg.ok
       THEN /\ page' = <<R(bg.w), R(bg.h)>>
            /\ scale' = TicketScale(coords, page')
            /\ col_r' = compute_col_r(coords, scale'[1], page'[1])
            /\ pc' = "loop"
       ELSE /\ pc' = "failed"
            /\ UNCHANGED <<page, scale, col_r>>
    /\ UNCHANGED <<gen, coords, vars_data, bg, args, i, canvas, warned, tmp, out,
                   procs, files, AppVars>>

\* one iteration if the defaults were filled in with meta.setdefault instead of
\* read with meta.get
TicketField_setdefault ==
    /\ gen = "ticket" /\ pc = "loop" /\ i <= Len(coords)
    /\ LET e == coords[i] IN
         IF startswith(e.name, "_")
         THEN /\ i' = i + 1
              /\ UNCHANGED <<pc, canvas, coords>>
         ELSE IF ~e.isdict \/ Len(Get(e.meta, "pos", <<0, 0>>)) # 2
         THEN /\ pc' = "failed"
              /\ UNCHANGED <<i, canvas, coords>>
         ELSE /\ canvas' = canvas \o TicketDraw(e.name, e.meta, vars_data, scale,
                                                page, col_r, args)
              /\ coords' = [coords EXCEPT ![i].meta =
                              [q \in DOMAIN e.meta \cup {"pos"} |-> Get(e.meta, q, <<0, 0>>)]]
              /\ i' = i + 1
              /\ UNCHANGED pc
    /\ UNCHANGED <<gen, vars_data, bg, args, page, scale, col_r, warned, tmp, out,
                   procs, files, AppVars>>

\* main, lines 143-205: one iteration of "for name, meta in coords.items()"
TicketField ==
    /\ gen = "ticket" /\ pc = "loop" /\ i <= Len(coords)
    /\ LET e == coords[i] IN
         IF startswith(e.name, "_")
         THEN /\ i' = i + 1
              /\ UNCHANGED <<pc, canvas>>
         ELSE IF ~e.isdict \/ Len(Get(e.meta, "pos", <<0, 0>>)) # 2
         THEN /\ pc' = "failed"          \* AttributeError / ValueError ends the run
              /\ UNCHANGED <<i, canvas>>
         ELSE /\ canvas' = canvas \o TicketDraw(e.name, e.meta, vars_data, scale,
                                                page, col_r, args)
              /\ i' = i + 1
              /\ UNCHANGED pc
    /\ UNCHANGED <<gen, coords, vars_data, bg, args, page, scale, col_r, warned, tmp, out,
                   procs, files, AppVars>>

(***************************************************************************)
(* src/src/gera_controle.py                                                *)
(***************************************************************************)
\* gerar_overlay_controle, lines 248-252: the text of one field
ControleText(name, meta, dados) ==
    LET texto == Get(meta, "texto", "")
    IN  IF name \in DOMAIN VAR_MAP THEN Get(dados, VAR_MAP[name], texto) ELSE texto

\* proof_box: a dashed rectangle 2 points around the given box
proof_box(name, x_pt, y_pt, w_pt, h_pt) ==
    Instr("rect", name, "", RSub(x_pt, R(2)), RSub(y_pt, R(2)), "", R(0),
          RAdd(w_pt, R(4)), RAdd(h_pt, R(4)), TRUE)

\* gerar_overlay_controle, lines 248-291: everything one field adds to the canvas
ControleDraw(name, meta, dados, pg, a) ==
    LET texto == ControleText(name, meta, dados)
        font == Get(meta, "font", "Helvetica")
        pt == R(Get(meta, "pt", 8))
        align == Get(meta, "align", "left")
        pos == Get(meta, "pos", <<0, 0>>)
        y_mm == IF a.invert_y THEN RSub(pg[2], R(pos[2])) ELSE R(pos[2])
        x_pt == RMul(R(pos[1]), mm)
        y_pt == RMul(y_mm, mm)
        w_pt == stringWidth(texto, FontOrDefault(font), pt)
        al == lower(IF align = "" THEN "left" ELSE align)
        x0 == IF al = "center" THEN RSub(x_pt, RDiv(w_pt, R(2)))
              ELSE IF al = "right" THEN RSub(x_pt, w_pt)
              ELSE x_pt
    IN  << draw_text(name, texto, x_pt, y_pt, font, pt, align) >>
        \o (IF a.proof THEN << proof_box(name, x0, y_pt, w_pt, pt) >> ELSE << >>)

\* main, lines 342-353: the page is the reference size of the map, or 80 x 130 mm
ControleSetup ==
    /\ gen = "controle" /\ pc = "start"
    /\ page' = <<CoordsNum(coords, "_ref_width", R(DEFAULT_W_MM)),
                 CoordsNum(coords, "_ref_height", R(DEFAULT_H_MM))>>
    /\ pc' = "loop"
    /\ UNCHANGED <<gen, coords, vars_data, bg, args, i, scale, col_r, canvas, warned, tmp, out,
                   procs, files, AppVars>>

\* gerar_overlay_controle, lines 241-291: one iteration of the loop
ControleField ==
    /\ gen = "controle" /\ pc = "loop" /\ i <= Len(coords)
    /\ LET e == coords[i] IN
         IF startswith(e.name, "_") \/ ~e.isdict
              \/ IsBlank(ControleText(e.name, e.meta, vars_data))
         THEN /\ i' = i + 1
              /\ UNCHANGED <<pc, canvas>>
         ELSE IF Len(Get(e.meta, "pos", <<0, 0>>)) # 2
         THEN /\ pc' = "failed"          \* ValueError, reported by __main__
              /\ UNCHANGED <<i, canvas>>
         ELSE /\ canvas' = canvas \o ControleDraw(e.name, e.meta, vars_data, page, args)
              /\ i' = i + 1
              /\ UNCHANGED pc
    /\ UNCHANGED <<gen, coords, vars_data, bg, args, page, scale, col_r, warned, tmp, out,
                   procs, files, AppVars>>

(***************************************************************************)
(* src/gera_controle.py                                                    *)
(***************************************************************************)
get_scale(c, page_w_mm, page_h_mm) ==
    LET ref_w == CoordsNum(c, "_ref_width", page_w_mm)
        ref_h == CoordsNum(c, "_ref_height", page_h_mm)
    IN  << IF ~RIsZero(ref_w) THEN RDiv(page_w_mm, ref_w) ELSE R(1),
           IF ~RIsZero(ref_h) THEN RDiv(page_h_mm, ref_h) ELSE R(1) >>

\* str_width_pt: the width in the given face, in Helvetica if that fails
str_width_pt(text, font, pt) == stringWidth(text, FontOrDefault(font), pt)

align_offset_pt(text, font, pt, align) ==
    LET w == str_width_pt(text, font, pt)
    IN  IF align = "center" THEN RDiv(RSub(R(0), w), R(2))
        ELSE IF align = "right" THEN RSub(R(0), w)
        ELSE R(0)

\* the text of one field if a non-blank default were preferred to the values map
DrawValueText_default(name, meta, dados) ==
    IF ~IsBlank(Get(meta, "texto", "")) \/ name \notin DOMAIN dados
    THEN Get(meta, "texto", "")
    ELSE dados[name]

\* the text of one field if a blank value counted as a missing key
DrawValueText_blank_absent(name, meta, dados) ==
    IF name \in DOMAIN dados /\ ~IsBlank(dados[name]) THEN dados[name]
    ELSE Get(meta, "texto", "")

\* draw_value, lines 121-126: the text of one field
DrawValueText(name, meta, dados) ==
    IF name \in DOMAIN dados THEN dados[name] ELSE Get(meta, "texto", "")

\* draw_value, lines 128-152: the instructions of one field with a 2-element pos
draw_value(name, meta, dados, a, pg, sc) ==
    LET text == DrawValueText(name, meta, dados)
        pos == meta["pos"]
        x_mm == RMul(R(pos[1]), sc[1])
        y0 == RMul(R(pos[2]), sc[2])
        y_mm == IF a.invert_y THEN RSub(pg[2], y0) ELSE y0
        font == Get(meta, "font", "Helvetica")
        pt == R(Get(meta, "pt", 8))
        align == lower(Get(meta, "align", "left"))
        x_pt == RAdd(RMul(x_mm, mm), align_offset_pt(text, font, pt, align))
        y_pt == RMul(y_mm, mm)
    IN  << Instr("drawString", name, text, x_pt, y_pt, font, pt, R(0), R(0), FALSE) >>
        \o (IF a.proof
            THEN << Instr("rect", name, "", RMul(RSub(x_mm, Rat(4, 5)), mm),
                          RMul(RSub(y_mm, Rat(4, 5)), mm), "", R(0),
                          RMul(Rat(8, 5), mm), RMul(Rat(8, 5), mm), FALSE) >>
            ELSE << >>)

\* main, lines 300-309, and gerar_overlay, line 162: page size in mm (A4 with a
\* warning when the background cannot be read) and the scale
OverlaySetup ==
    /\ gen = "overlay" /\ pc = "start"
    /\ IF bg.ok
       THEN /\ page' = <<RDiv(R(bg.w), mm), RDiv(R(bg.h), mm)>>
            /\ UNCHANGED warned
       ELSE /\ page' = A4
            /\ warned' = TRUE
    /\ scale' = get_scale(coords, page'[1], page'[2])
    /\ tmp' = "empty"                    \* tempfile.mkstemp creates the file
    /\ pc' = "loop"
    /\ UNCHANGED <<gen, coords, vars_data, bg, args, i, col_r, canvas, out,
                   procs, files, AppVars>>

\* gerar_overlay, lines 170-180: one iteration of the loop
OverlayField ==
    /\ gen = "overlay" /\ pc = "loop" /\ i <= Len(coords)
    /\ LET e == coords[i] IN
         IF startswith(e.name, "_") \/ ~e.isdict \/ "pos" \notin DOMAIN e.meta
         THEN /\ i' = i + 1
              /\ UNCHANGED <<pc, canvas>>
         ELSE IF Len(e.meta["pos"]) # 2
         THEN /\ i' = i + 1              \* draw_value returns at once
              /\ UNCHANGED <<pc, canvas>>
         ELSE IF Get(e.meta, "font", "Helvetica") \notin RegisteredFonts
         THEN /\ pc' = "failed"          \* c.setFont raises, reported by __main__
              /\ UNCHANGED <<i, canvas>>
         ELSE /\ canvas' = canvas \o draw_value(e.name, e.meta, vars_data, args,
                                                page, scale)
              /\ i' = i + 1
              /\ UNCHANGED pc
    /\ UNCHANGED <<gen, coords, vars_data, bg, args, page, scale, col_r, warned, tmp, out,
                   procs, files, AppVars>>

(***************************************************************************)
(* src/src/valida_layout.py                                                *)
(***************************************************************************)
\* baseline_fix(pt) with its default factor 0.30
valida_baseline_fix(pt) == RMul(Rat(3, 10), pt)

\* main, lines 30-37: both reference dimensions are required
ValidaSetup ==
    /\ gen = "valida" /\ pc = "start"
    /\ LET ref_w == CoordsNum(coords, "_ref_width", R(0))
           ref_h == CoordsNum(coords, "_ref_height", R(0))
       IN  IF bg.ok /\ ~RIsZero(ref_w) /\ ~RIsZero(ref_h)
           THEN /\ page' = <<R(bg.w), R(bg.h)>>
                /\ scale' = <<RDiv(page'[1], ref_w), RDiv(page'[2], ref_h)>>
                /\ pc' = "loop"
           ELSE /\ pc' = "failed"        \* ValueError: the map needs _ref_width/_ref_height
                /\ UNCHANGED <<page, scale>>
    /\ UNCHANGED <<gen, coords, vars_data, bg, args, i, col_r, canvas, warned, tmp, out,
                   procs, files, AppVars>>

\* main, lines 46-54: the box of one field
ValidaBox(name, meta, sc, pg, a) ==
    LET pt == R(Get(meta, "pt", 22))
        pos == Get(meta, "pos", <<0, 0>>)
        x_pt == RMul(R(pos[1]), sc[1])
        y0 == RMul(R(pos[2]), sc[2])
        y1 == IF a.invert_y THEN RSub(pg[2], y0) ELSE y0
    IN  Instr("rect", name, "", x_pt, RAdd(y1, valida_baseline_fix(pt)), "", R(0),
              RMul(pt, R(4)), RMul(pt, Rat(6, 5)), FALSE)

\* main, lines 43-54: one iteration of the loop
ValidaField ==
    /\ gen = "valida" /\ pc = "loop" /\ i <= Len(coords)
    /\ LET e == coords[i] IN
         IF startswith(e.name, "_")
         THEN /\ i' = i + 1
              /\ UNCHANGED <<pc, canvas>>
         ELSE IF ~e.isdict \/ Len(Get(e.meta, "pos", <<0, 0>>)) # 2
         THEN /\ pc' = "failed"
              /\ UNCHANGED <<i, canvas>>
         ELSE /\ canvas' = Append(canvas, ValidaBox(e.name, e.meta, scale, page, args))
              /\ i' = i + 1
              /\ UNCHANGED pc
    /\ UNCHANGED <<gen, coords, vars_data, bg, args, page, scale, col_r, warned, tmp, out,
                   procs, files, AppVars>>

(***************************************************************************)
(* After the loop: save the overlay, merge it onto the background, write   *)
(* the output file, delete the temporary overlay.                          *)
(***************************************************************************)
\* c.save(): the overlay is written to its file (to memory in gerar_overlay_controle)
Save ==
    /\ pc = "loop" /\ i > Len(coords)
    /\ pc' = "saved"
    /\ tmp' = IF gen = "controle" THEN tmp ELSE "written"
    /\ UNCHANGED <<gen, coords, vars_data, bg, args, i, page, scale, col_r, canvas, warned,
                   out,
                   procs, files, AppVars>>

\* PdfReader(bg), PdfReader(overlay), merge_page: the readers and the merge
\* may raise; they do when the background cannot be read
Merge ==
    /\ pc = "saved"
    /\ \E ok \in (IF bg.ok THEN BOOLEAN ELSE {FALSE}) :
         pc' = IF ok THEN "merged" ELSE "failed"
    /\ UNCHANGED <<gen, coords, vars_data, bg, args, i, page, scale, col_r, canvas, warned,
                   tmp, out,
                   procs, files, AppVars>>

\* open(out, "wb") creates the file, PdfWriter.write fills it or raises midway
WriteOut ==
    /\ pc = "merged"
    /\ \E ok \in BOOLEAN :
         /\ out' = IF ok THEN "final" ELSE "partial"
         /\ pc' = IF ok THEN "written" ELSE "failed"
    /\ UNCHANGED <<gen, coords, vars_data, bg, args, i, page, scale, col_r, canvas, warned,
                   tmp,
                   procs, files, AppVars>>

\* the cleanup if --keep-intermediate were not looked at
Cleanup_ignores_keep ==
    /\ pc = "written"
    /\ \E ok \in BOOLEAN :
         tmp' = IF gen = "controle" \/ ~ok THEN tmp ELSE "absent"
    /\ pc' = "done"
    /\ UNCHANGED <<gen, coords, vars_data, bg, args, i, page, scale, col_r, canvas, warned,
                   out,
                   procs, files, AppVars>>

\* "try: overlay.unlink() except Exception: pass": the temporary overlay is
\* unlinked, and an unlink that raises is ignored and leaves the file (the
\* file is kept on purpose with --keep-intermediate; the overlay of
\* gerar_overlay_controle was never a file)
Cleanup ==
    /\ pc = "written"
    /\ \E ok \in BOOLEAN :
         tmp' = IF gen = "controle" \/ (gen = "overlay" /\ args.keep) \/ ~ok
                THEN tmp ELSE "absent"
    /\ pc' = "done"
    /\ UNCHANGED <<gen, coords, vars_data, bg, args, i, page, scale, col_r, canvas, warned,
                   out,
                   procs, files, AppVars>>

(***************************************************************************)
(* Two generation runs executing at the same time on one file system.      *)
(* Each process is [gen, out_path, pc, ov]: its program, its output path   *)
(* <<directory, file name>>, its position, and the overlay its merge step  *)
(* read. The content of a file is <<"overlay", p>> (the overlay rendered   *)
(* by process p) or <<"final", p>> (a background merged with the overlay   *)
(* of process p).                                                          *)
(***************************************************************************)
Procs == {1, 2}

\* the path of the temporary overlay of process p; << >> when the overlay
\* never is a file
overlay_tmp(p) ==
    IF procs[p].gen = "ticket" THEN <<procs[p].out_path[1], "__overlay_tmp.pdf">>
    ELSE IF procs[p].gen = "valida" THEN <<procs[p].out_path[1], "__overlay_valida_tmp.pdf">>
    ELSE IF procs[p].gen = "overlay"
    THEN <<"tmp", IF p = 1 THEN "tmp1_overlay_controle.pdf" ELSE "tmp2_overlay_controle.pdf">>
    ELSE << >>

\* writing and unlinking a file
WriteFile(fs, path, content) ==
    [q \in DOMAIN fs \cup {path} |-> IF q = path THEN content ELSE fs[q]]
Unlink(fs, path) == [q \in DOMAIN fs \ {path} |-> fs[q]]

ProcStep(p, to, ov) == procs' = [procs EXCEPT ![p].pc = to, ![p].ov = ov]

RunVars == <<gen, coords, vars_data, bg, args, pc, i, page, scale, col_r, canvas, warned,
             tmp, out>>

\* the loop and c.save(): the overlay is written to its temporary file
ConcRender(p) ==
    /\ procs[p].pc = "start"
    /\ files' = IF overlay_tmp(p) = << >> THEN files
                ELSE WriteFile(files, overlay_tmp(p), <<"overlay", p>>)
    /\ ProcStep(p, "saved", 0)
    /\ UNCHANGED <<RunVars, AppVars>>

\* PdfReader(overlay) and merge_page: the overlay found at the temporary path
\* is merged; a missing file raises
ConcMerge(p) ==
    /\ procs[p].pc = "saved"
    /\ IF overlay_tmp(p) = << >> THEN ProcStep(p, "merged", p)
       ELSE IF overlay_tmp(p) \in DOMAIN files
       THEN ProcStep(p, "merged", files[overlay_tmp(p)][2])
       ELSE ProcStep(p, "failed", 0)
    /\ UNCHANGED <<files, RunVars, AppVars>>

\* the merged page is written to the output path
ConcWriteOut(p) ==
    /\ procs[p].pc = "merged"
    /\ files' = WriteFile(files, procs[p].out_path, <<"final", procs[p].ov>>)
    /\ ProcStep(p, "written", procs[p].ov)
    /\ UNCHANGED <<RunVars, AppVars>>

\* the temporary overlay is unlinked; a missing file is not an error
ConcCleanup(p) ==
    /\ procs[p].pc = "written"
    /\ files' = IF overlay_tmp(p) = << >> THEN files ELSE Unlink(files, overlay_tmp(p))
    /\ ProcStep(p, "done", procs[p].ov)
    /\ UNCHANGED <<RunVars, AppVars>>

(***************************************************************************)
(* Alias tables seen as one lookup.                                        *)
(***************************************************************************)
\* the alias keys a generator consults for a field
AliasKeys(g, name) ==
    IF g = "ticket" /\ name \in DOMAIN KEY_MAP THEN KEY_MAP[name]
    ELSE IF g = "controle" /\ name \in DOMAIN VAR_MAP THEN <<VAR_MAP[name]>>
    ELSE << >>

Range(f) == {f[k] : k \in DOMAIN f}

(***************************************************************************)
(* Inputs.                                                                 *)
(***************************************************************************)
Restrict(f, S) == [k \in S |-> f[k]]

\* sequences of at most n items whose names follow the order of the list "names"
RankIn(names, x) == CHOOSE k \in DOMAIN names : names[k] = x
OrderedSeqs(Items, names, n) ==
    UNION {{q \in [1..m -> Items] :
              \A a, b \in 1..m : a < b => RankIn(names, q[a].name) < RankIn(names, q[b].name)}
             : m \in 0..n}

RefItems(w, h) ==
    (IF w < 0 THEN << >> ELSE << Number("_ref_width", w) >>)
    \o (IF h < 0 THEN << >> ELSE << Number("_ref_height", h) >>)

\* the form application is not running
AppIdle ==
    /\ exists = {} /\ form = << >> /\ json = << >>
    /\ opts = << >> /\ dialog = "" /\ cmd = << >> /\ launches = 0

InitRun ==
    /\ pc = "start" /\ i = 1
    /\ page = <<R(0), R(0)>> /\ scale = <<R(1), R(1)>> /\ col_r = R(0)
    /\ canvas = << >> /\ warned = FALSE
    /\ tmp = "absent" /\ out = "absent"
    /\ procs = << >> /\ files = << >>
    /\ AppIdle

\* Resolution runs: the geometry is fixed, the names, the default texts and
\* the values map vary.
ResolveNames == <<"horario_valor", "linha_valor_2", "autorizacao_valor">>
\* a key of the values map holds a blank or a text that names the key
ValueOf(k) == "<" \o k \o ">"
ResolveValues(k) == {" ", ValueOf(k)}
ResolveFields ==
    {Field(n, [texto |-> t, pos |-> <<50, 1800>>, pt |-> 22, align |-> "left"]) :
       n \in Range(ResolveNames), t \in {"", "PADRAO"}}

RelevantKeys(name) ==
    {name, BaseKey(name)} \cup Range(AliasKeys("ticket", name))
                          \cup Range(AliasKeys("controle", name))

InitResolve ==
    /\ gen \in {"ticket", "controle", "overlay"}
    /\ \E fs \in OrderedSeqs(ResolveFields, ResolveNames, MaxFields) :
         /\ Len(fs) >= 1
         /\ coords = RefItems(600, 2000) \o fs
         /\ \E D \in SUBSET (UNION {RelevantKeys(fs[k].name) : k \in DOMAIN fs}) :
              /\ Cardinality(D) <= MaxVars
              /\ vars_data \in {f \in [D -> {" "} \cup {ValueOf(k) : k \in D}] :
                                   \A k \in D : f[k] \in ResolveValues(k)}
    /\ bg = [ok |-> TRUE, w |-> 300, h |-> 1000]
    /\ args = [invert_y |-> TRUE, proof |-> FALSE, baseline_fix |-> Rat(3, 10),
               keep |-> FALSE]
    /\ InitRun

\* Geometry runs: the values are fixed, the reference size, the positions, the
\* alignment, the orientation and the baseline factor vary.
GeomVars(g) ==
    IF g = "overlay"
    THEN [origem_valor |-> "Springfield", tarifa_valor |-> "10,00", troco_valor |-> "2,50"]
    ELSE [origem |-> "Springfield", tarifa |-> "10,00", troco |-> "2,50"]
GeomNames == <<"origem_valor", "tarifa_valor", "troco_valor">>
GeomFields ==
    {Field(n, [texto |-> "", pos |-> p, pt |-> 22, align |-> al]) :
       n \in Range(GeomNames),
       p \in {<<50, 1800>>, <<120, 400>>}, al \in {"left", "center"}}

InitGeom ==
    /\ gen \in {"ticket", "controle", "overlay", "valida"}
    /\ \E fs \in OrderedSeqs(GeomFields, GeomNames, MaxFields) :
       \E w \in {-1, 0, 600} : \E h \in {-1, 0, 2000} :
         coords = RefItems(w, h) \o fs
    /\ vars_data = Restrict(GeomVars(gen),
                            DOMAIN GeomVars(gen)
                              \cap UNION {RelevantKeys(coords[k].name) : k \in DOMAIN coords})
    /\ bg = [ok |-> TRUE, w |-> 300, h |-> 1000]
    /\ \E inv \in BOOLEAN : \E f \in {Rat(3, 10)} \cup (IF gen = "ticket" THEN {R(1)} ELSE {}) :
         args = [invert_y |-> inv, proof |-> FALSE, baseline_fix |-> f, keep |-> FALSE]
    /\ InitRun

\* Robustness runs: one item that may lack a position, have a malformed one,
\* name an unknown font, not be a record at all or be a record under a
\* reserved name, followed by a sound field;
\* proof mode and the readability of the background vary.
DrawPos == {<< >>, <<50>>, <<50, 1800>>}
DrawItems ==
    {Field("troco_label", Restrict([texto |-> t, pos |-> p, pt |-> 22, align |-> al,
                                    font |-> f],
                                   {"texto", "pt", "align", "font"}
                                     \cup (IF p = << >> THEN {} ELSE {"pos"}))) :
       t \in {"TROCO", " "}, p \in DrawPos, al \in {"left", "RIGHT"},
       f \in {"Helvetica-Bold", "Arial"}}
    \cup {Number("versao", 2),
          Field("_nota", [texto |-> "NOTA", pos |-> <<50, 1800>>]),
          Field("_margem", [texto |-> "MARGEM", pos |-> <<50>>, font |-> "Arial"])}
SoundField == Field("destino_label", [texto |-> "DESTINO", pos |-> <<10, 20>>])

InitDraw ==
    /\ gen \in {"ticket", "controle", "overlay", "valida"}
    /\ \E it \in DrawItems : coords = RefItems(600, 2000) \o <<it, SoundField>>
    /\ vars_data = [k \in {} |-> ""]
    /\ \E ok \in BOOLEAN : bg = [ok |-> ok, w |-> 300, h |-> 1000]
    /\ \E pr \in BOOLEAN : \E kp \in (IF gen = "overlay" THEN BOOLEAN ELSE {FALSE}) :
         args = [invert_y |-> TRUE, proof |-> pr, baseline_fix |-> Rat(3, 10),
                 keep |-> kp]
    /\ InitRun

\* Layout runs: a label and its value, which may carry the offsets dx, dy and
\* may be declared as one group; the position and the alignment of the value
\* and the orientation vary.
LayoutNames == <<"origem_label", "origem_valor">>
LayoutOffsets == {{}, {"dx"}, {"dx", "dy"}}
LayoutField(n, t, p, al, D) ==
    Field(n, Restrict([texto |-> t, pos |-> p, pt |-> 22, align |-> al, dx |-> 4, dy |-> 6],
                      {"texto", "pos", "pt", "align"} \cup D))
LayoutVars(g) ==
    IF g = "overlay" THEN [origem_valor |-> "Springfield"] ELSE [origem |-> "Springfield"]

InitLayout ==
    /\ gen \in {"ticket", "controle", "overlay"}
    /\ \E D1, D2 \in LayoutOffsets :
       \E p \in {<<120, 1800>>, <<120, 400>>} : \E al \in {"left", "center"} :
       \E g \in {<< >>, << Table("_groups", <<LayoutNames>>) >>} :
         coords = RefItems(600, 2000) \o g
                    \o << LayoutField("origem_label", "ORIGEM:", <<50, 1800>>, "left", D1),
                          LayoutField("origem_valor", "", p, al, D2) >>
    /\ vars_data = LayoutVars(gen)
    /\ bg = [ok |-> TRUE, w |-> 300, h |-> 1000]
    /\ \E inv \in BOOLEAN :
         args = [invert_y |-> inv, proof |-> FALSE, baseline_fix |-> Rat(3, 10),
               keep |-> FALSE]
    /\ InitRun

\* Route runs of the ticket: the two lines of the route, each with or without
\* a default text, and a values map over the keys "linha", "linha1", "linha2".
RouteKeys == {"linha", "linha1", "linha2"}
RouteField(n, t) == Field(n, [texto |-> t, pos |-> <<50, 1800>>, pt |-> 22, align |-> "left"])

InitRoute ==
    /\ gen = "ticket"
    /\ \E t1, t2 \in {"", "PADRAO"} :
         coords = RefItems(600, 2000)
                    \o << RouteField("linha_valor_1", t1), RouteField("linha_valor_2", t2) >>
    /\ \E D \in SUBSET RouteKeys :
         vars_data \in {f \in [D -> {" "} \cup {ValueOf(k) : k \in D}] :
                              \A k \in D : f[k] \in ResolveValues(k)}
    /\ bg = [ok |-> TRUE, w |-> 300, h |-> 1000]
    /\ args = [invert_y |-> TRUE, proof |-> FALSE, baseline_fix |-> Rat(3, 10),
               keep |-> FALSE]
    /\ InitRun

\* Suppression runs of draw_value: two fields, each with or without a default
\* text, each absent from the values map or present with the empty string, a
\* blank or a text.
SuppressNames == <<"origem_valor", "destino_valor">>
SuppressValues == {"", " ", "Springfield"}
SuppressField(n, t) == Field(n, [texto |-> t, pos |-> <<50, 1800>>, pt |-> 8, align |-> "left"])

InitSuppress ==
    /\ gen = "overlay"
    /\ \E t1, t2 \in {"", "PADRAO"} :
         coords = RefItems(600, 2000)
                    \o << SuppressField("origem_valor", t1), SuppressField("destino_valor", t2) >>
    /\ \E D \in SUBSET Range(SuppressNames) : vars_data \in [D -> SuppressValues]
    /\ bg = [ok |-> TRUE, w |-> 300, h |-> 1000]
    /\ args = [invert_y |-> TRUE, proof |-> FALSE, baseline_fix |-> Rat(3, 10),
               keep |-> FALSE]
    /\ InitRun

Init == InitResolve \/ InitGeom \/ InitDraw \/ InitLayout \/ InitRoute \/ InitSuppress

Next ==
    \/ TicketSetup \/ TicketField
    \/ ControleSetup \/ ControleField
    \/ OverlaySetup \/ OverlayField
    \/ ValidaSetup \/ ValidaField
    \/ Save \/ Merge \/ WriteOut \/ Cleanup

Spec == Init /\ [][Next]_vars

\* Concurrent runs: two processes with distinct output paths, each running
\* any of the four programs, over an empty file system.
OutPaths == {<<d, n>> : d \in {"out", "out2"}, n \in {"a.pdf", "b.pdf"}}

InitConc ==
    /\ \E g1, g2 \in {"ticket", "controle", "overlay", "valida"} :
       \E o1, o2 \in OutPaths :
         /\ o1 # o2
         /\ procs = [p \in Procs |->
                       [gen |-> IF p = 1 THEN g1 ELSE g2,
                        out_path |-> IF p = 1 THEN o1 ELSE o2,
                        pc |-> "start", ov |-> 0]]
    /\ files = << >>
    /\ gen = "none" /\ coords = << >> /\ vars_data = << >>
    /\ bg = [ok |-> TRUE, w |-> 300, h |-> 1000]
    /\ args = [invert_y |-> TRUE, proof |-> FALSE, baseline_fix |-> Rat(3, 10),
               keep |-> FALSE]
    /\ pc = "start" /\ i = 1
    /\ page = <<R(0), R(0)>> /\ scale = <<R(1), R(1)>> /\ col_r = R(0)
    /\ canvas = << >> /\ warned = FALSE
    /\ tmp = "absent" /\ out = "absent"
    /\ AppIdle

NextConc ==
    \E p \in Procs : ConcRender(p) \/ ConcMerge(p) \/ ConcWriteOut(p) \/ ConcCleanup(p)

SpecConc == InitConc /\ [][NextConc]_vars

(***************************************************************************)
(* src/app.py: the form application. One values form per tab, the option   *)
(* widgets of the two tabs, and the two buttons that save the form and run *)
(* a generator as a subprocess.                                            *)
(***************************************************************************)
MaxLaunches == 2    \* generator processes started in one session of the application

Tabs == {"ticket", "controle"}

\* the project paths, relative to ROOT
BG_TICKET == "assets/bg_ticket-APAGADO.pdf"
BG_CONTROLE == "assets/bg_controle.pdf"
COORDS_TICKET == "data/coords_ticket_100_com_texto.json"
COORDS_CONTROLE == "data/coords_controle.json"
VARS_TICKET == "data/ticket.json"
VARS_CONTROLE == "data/controle.json"
GERA_TICKET == "src/gera_ticket.py"
GERA_CONTROLE == "src/gera_controle.py"

\* JsonForm.json_path of each tab
json_path(t) == IF t = "ticket" THEN VARS_TICKET ELSE VARS_CONTROLE

\* load_json: the content of the file, {} when the file does not exist
load_json(t) == IF json_path(t) \in exists THEN json[t] ELSE << >>

\* _check_paths_ticket, _check_paths_controle: nothing is missing
check_paths_ticket == {GERA_TICKET, BG_TICKET, COORDS_TICKET, VARS_TICKET} \subseteq exists
check_paths_controle ==
    {GERA_CONTROLE, BG_CONTROLE, COORDS_CONTROLE, VARS_CONTROLE} \subseteq exists

\* f"{value:.2f}" of a spin box value below 10, held in hundredths
Digit(d) == SubSeq("0123456789", d + 1, d + 1)
Fmt2(h) == Digit(h \div 100) \o "." \o Digit((h \div 10) % 10) \o Digit(h % 10)

\* the command lines built by run_ticket and run_controle
TicketCmd ==
    << "python", GERA_TICKET, "--bg", BG_TICKET, "--coords", COORDS_TICKET,
       "--vars", VARS_TICKET, "--out", "out/ticket_final.pdf",
       "--invert-y", "--baseline-fix", Fmt2(opts.basefix) >>
    \o (IF opts.proof THEN << "--proof" >> ELSE << >>)
ControleCmd ==
    << "python", GERA_CONTROLE, "--bg", BG_CONTROLE, "--coords", COORDS_CONTROLE,
       "--vars", VARS_CONTROLE, "--out", "out/controle_final.pdf", "--invert-y" >>

\* the variables of the generation runs, which the form application leaves alone
GenVars == <<RunVars, procs, files>>

\* the user edits the text of a field of a form
FieldTexts == {"Springfield", "Shelbyville"}
EditField(t) ==
    /\ \E k \in DOMAIN form[t] : \E v \in FieldTexts :
         form' = [form EXCEPT ![t] = [form[t] EXCEPT ![k] = v]]
    /\ UNCHANGED <<exists, json, opts, dialog, cmd, launches, GenVars>>

\* the user changes the baseline-fix spin box (step 0.05, from 0.00 to 2.00)
SpinValues == {100, 105}
SetBasefix ==
    /\ \E v \in SpinValues : opts' = [opts EXCEPT !.basefix = v]
    /\ UNCHANGED <<exists, form, json, dialog, cmd, launches, GenVars>>

\* the user clicks one of the check boxes
ToggleProof ==
    /\ opts' = [opts EXCEPT !.proof = ~opts.proof]
    /\ UNCHANGED <<exists, form, json, dialog, cmd, launches, GenVars>>
ToggleInvertY(t) ==
    /\ opts' = IF t = "ticket"
               THEN [opts EXCEPT !.invertY_ticket = ~opts.invertY_ticket]
               ELSE [opts EXCEPT !.invertY_ctrl = ~opts.invertY_ctrl]
    /\ UNCHANGED <<exists, form, json, dialog, cmd, launches, GenVars>>

\* JsonForm.reload: the fields of the form are rebuilt from the values file
JsonForm_reload(t) ==
    /\ form' = [form EXCEPT ![t] = load_json(t)]
    /\ UNCHANGED <<exists, json, opts, dialog, cmd, launches, GenVars>>

\* JsonForm.save: collect() is written to the values file, which is created
\* if need be, and an information box is shown
JsonForm_save(t) ==
    /\ json' = [json EXCEPT ![t] = form[t]]
    /\ exists' = exists \cup {json_path(t)}
    /\ dialog' = "OK"
    /\ UNCHANGED <<form, opts, cmd, launches, GenVars>>

\* run_ticket clicked without the check of the paths
run_ticket_unchecked ==
    /\ launches < MaxLaunches
    /\ json' = [json EXCEPT !["ticket"] = form["ticket"]]
    /\ exists' = exists \cup {VARS_TICKET}
    /\ cmd' = TicketCmd
    /\ launches' = launches + 1
    /\ \E ok \in BOOLEAN : dialog' = IF ok THEN "OK" ELSE "Erro ao gerar TICKET"
    /\ UNCHANGED <<form, opts, GenVars>>

\* run_ticket: check the paths, save the form, run the generator and wait;
\* a generator that exits with an error is reported in a message box
run_ticket ==
    /\ launches < MaxLaunches
    /\ IF ~check_paths_ticket
       THEN /\ dialog' = "Arquivos ausentes"
            /\ UNCHANGED <<exists, json, cmd, launches>>
       ELSE /\ json' = [json EXCEPT !["ticket"] = form["ticket"]]
            /\ exists' = exists \cup {VARS_TICKET}
            /\ cmd' = TicketCmd
            /\ launches' = launches + 1
            /\ \E ok \in BOOLEAN : dialog' = IF ok THEN "OK" ELSE "Erro ao gerar TICKET"
    /\ UNCHANGED <<form, opts, GenVars>>

\* run_controle: the same for the control slip
run_controle ==
    /\ launches < MaxLaunches
    /\ IF ~check_paths_controle
       THEN /\ dialog' = "Arquivos ausentes"
            /\ UNCHANGED <<exists, json, cmd, launches>>
       ELSE /\ json' = [json EXCEPT !["controle"] = form["controle"]]
            /\ exists' = exists \cup {VARS_CONTROLE}
            /\ cmd' = ControleCmd
            /\ launches' = launches + 1
            /\ \E ok \in BOOLEAN : dialog' = IF ok THEN "OK" ELSE "Erro ao gerar CONTROLE"
    /\ UNCHANGED <<form, opts, GenVars>>

\* Main.__init__: at most one project path is missing, each values file that
\* exists holds one field, the forms are loaded from the files and the
\* option widgets are set to their defaults.
AllPaths ==
    {GERA_TICKET, BG_TICKET, COORDS_TICKET, VARS_TICKET,
     GERA_CONTROLE, BG_CONTROLE, COORDS_CONTROLE, VARS_CONTROLE}
MissingAtStart == {{}, {BG_TICKET}, {VARS_TICKET}, {GERA_CONTROLE}, {VARS_CONTROLE}}

InitApp ==
    /\ \E M \in MissingAtStart : exists = AllPaths \ M
    /\ json = [t \in Tabs |-> IF json_path(t) \in exists
                              THEN [origem |-> "Springfield"] ELSE << >>]
    /\ form = [t \in Tabs |-> load_json(t)]
    /\ opts = [basefix |-> 100, proof |-> FALSE, invertY_ticket |-> TRUE,
               invertY_ctrl |-> TRUE]
    /\ dialog = "" /\ cmd = << >> /\ launches = 0
    /\ procs = << >> /\ files = << >>
    /\ gen = "none" /\ coords = << >> /\ vars_data = << >>
    /\ bg = [ok |-> TRUE, w |-> 300, h |-> 1000]
    /\ args = [invert_y |-> TRUE, proof |-> FALSE, baseline_fix |-> Rat(3, 10),
               keep |-> FALSE]
    /\ pc = "start" /\ i = 1
    /\ page = <<R(0), R(0)>> /\ scale = <<R(1), R(1)>> /\ col_r = R(0)
    /\ canvas = << >> /\ warned = FALSE
    /\ tmp = "absent" /\ out = "absent"

NextApp ==
    \/ \E t \in Tabs : EditField(t) \/ ToggleInvertY(t) \/ JsonForm_reload(t) \/ JsonForm_save(t)
    \/ SetBasefix \/ ToggleProof
    \/ run_ticket \/ run_controle

SpecApp == InitApp /\ [][NextApp]_vars

(***************************************************************************)
(* Vocabulary of the properties.                                           *)
(***************************************************************************)
\* the iteration of item k has completed
Done(k) == k \in DOMAIN coords /\ k < i

\* a field record with a well-formed position
Drawable(e) ==
    /\ e.isdict /\ ~startswith(e.name, "_")
    /\ "pos" \in DOMAIN e.meta /\ Len(e.meta["pos"]) = 2

\* the key holds a non-blank value in the values map
Present(key) == key \in DOMAIN vars_data /\ ~IsBlank(vars_data[key])

\* the string instructions emitted for a field, and their texts
TextInstrs(name) == {j \in DOMAIN canvas : canvas[j].name = name /\ canvas[j].op # "rect"}
TextsOf(name) == {canvas[j].text : j \in TextInstrs(name)}

\* the first alias key of the list that holds a non-blank value, as a set
FirstPresent(keys) ==
    {keys[k] : k \in {n \in DOMAIN keys :
                        Present(keys[n]) /\ \A m \in 1..(n - 1) : ~Present(keys[m])}}

(***************************************************************************)
(* C1 - Alias precedence: a field that has an alias list, with a non-blank *)
(* value under one of its alias keys and a non-blank value under its own   *)
(* name, is drawn with the alias key's value, never the own-name value.    *)
(***************************************************************************)
C1_Case(k) ==
    /\ Done(k) /\ Drawable(coords[k])
    /\ AliasKeys(gen, coords[k].name) # << >>
    /\ \E a \in Range(AliasKeys(gen, coords[k].name)) : Present(a)
    /\ Present(coords[k].name)

C1_AliasPrecedence ==
    \A k \in DOMAIN coords :
      C1_Case(k) =>
        /\ TextsOf(coords[k].name) # {}
        /\ \A t \in TextsOf(coords[k].name) :
             /\ t \in {vars_data[a] : a \in Range(AliasKeys(gen, coords[k].name))
                                            \cap DOMAIN vars_data}
             /\ t # vars_data[coords[k].name]

C1_Witness ==
    \E k \in DOMAIN coords :
      /\ C1_Case(k) /\ gen = "ticket" /\ pc = "saved"
      /\ Present(KEY_MAP[coords[k].name][2])

(***************************************************************************)
(* C2 - Blank is absent (all generators): when every key consulted for a   *)
(* field is missing or blank and at least one is present but blank, the    *)
(* field is drawn with its non-blank default text, as if the blank keys    *)
(* were missing.                                                           *)
(***************************************************************************)
Texto(k) == Get(coords[k].meta, "texto", "")

\* every key the resolution chain of the specification may consult
\* the base key of every field name the inputs use, computed once
FieldNames ==
    Range(ResolveNames) \cup Range(GeomNames) \cup Range(LayoutNames)
      \cup Range(SuppressNames) \cup {it.name : it \in DrawItems \cup {SoundField}}
      \cup {"linha_valor_1", "linha_valor_2", "_ref_width", "_ref_height", "_groups"}
BaseKeyOf == [n \in FieldNames |-> BaseKey(n)]

Consulted(g, name) == Range(AliasKeys(g, name)) \cup {name, BaseKeyOf[name]}

C2_Case(k) ==
    /\ Done(k) /\ Drawable(coords[k]) /\ ~IsBlank(Texto(k))
    /\ \E key \in Consulted(gen, coords[k].name) :
         key \in DOMAIN vars_data /\ IsBlank(vars_data[key])
    /\ \A key \in Consulted(gen, coords[k].name) : ~Present(key)
    /\ ~(gen = "ticket" /\ coords[k].name = "linha_valor_2")

C2_BlankIsAbsent_AllGenerators ==
    \A k \in DOMAIN coords :
      (C2_Case(k) /\ gen # "valida") => TextsOf(coords[k].name) = {Texto(k)}

(***************************************************************************)
(* C2 (amended) - In the ticket generator a blank value never ends the     *)
(* chain: a blank alias key is passed over for the next alias key, and     *)
(* when no alias key holds a non-blank value the non-blank default text is *)
(* drawn.                                                                  *)
(***************************************************************************)
C2_BlankIsAbsent_Ticket ==
    gen = "ticket" =>
      \A k \in DOMAIN coords :
        /\ C2_Case(k) => TextsOf(coords[k].name) = {Texto(k)}
        /\ ( /\ Done(k) /\ Drawable(coords[k])
             /\ Len(AliasKeys(gen, coords[k].name)) = 2
             /\ AliasKeys(gen, coords[k].name)[1] \in DOMAIN vars_data
             /\ ~Present(AliasKeys(gen, coords[k].name)[1])
             /\ Present(AliasKeys(gen, coords[k].name)[2]) )
           => TextsOf(coords[k].name) = {vars_data[AliasKeys(gen, coords[k].name)[2]]}

C2_Witness ==
    \E k \in DOMAIN coords :
      /\ gen = "ticket" /\ pc = "saved" /\ C2_Case(k)
      /\ \E a \in Range(AliasKeys(gen, coords[k].name)) : a \in DOMAIN vars_data

(***************************************************************************)
(* C3 - Base-key fallback: a field without a numeric index and without an  *)
(* alias entry, absent from the values map, is drawn with the non-blank    *)
(* value stored under its base key.                                        *)
(***************************************************************************)
C3_Case(k) ==
    /\ Done(k) /\ Drawable(coords[k]) /\ gen # "valida"
    /\ AliasKeys(gen, coords[k].name) = << >>
    /\ coords[k].name \notin DOMAIN vars_data

C3_BaseKeyFallback ==
    \A k \in DOMAIN coords :
      (C3_Case(k) /\ ~HasIndex(coords[k].name) /\ Present(BaseKeyOf[coords[k].name]))
        => TextsOf(coords[k].name) = {vars_data[BaseKeyOf[coords[k].name]]}

(***************************************************************************)
(* C3 (amended) - The base key is used only as an alias key: a field whose *)
(* first non-blank alias key is its base key is drawn with that value; a   *)
(* field with no alias entry and no entry under its own name keeps its     *)
(* default text whatever the values map holds under the base key.          *)
(***************************************************************************)
C3_BaseKeyOnlyAsAlias ==
    \A k \in DOMAIN coords :
      /\ C3_Case(k) =>
           /\ \A t \in TextsOf(coords[k].name) : t = Texto(k)
           /\ ~IsBlank(Texto(k)) => TextsOf(coords[k].name) = {Texto(k)}
      /\ ( /\ Done(k) /\ Drawable(coords[k])
           /\ BaseKeyOf[coords[k].name] \in FirstPresent(AliasKeys(gen, coords[k].name)) )
         => TextsOf(coords[k].name) = {vars_data[BaseKeyOf[coords[k].name]]}

C3_Witness ==
    \E k \in DOMAIN coords :
      /\ gen = "ticket" /\ pc = "saved" /\ C3_Case(k)
      /\ ~HasIndex(coords[k].name) /\ Present(BaseKeyOf[coords[k].name])
      /\ ~IsBlank(Texto(k))

(***************************************************************************)
(* C4 - Exact-name tier (all generators): when no alias key holds a        *)
(* non-blank value and the field's own name does, the field is drawn with  *)
(* the own-name value.                                                     *)
(***************************************************************************)
C4_Case(k) ==
    /\ Done(k) /\ Drawable(coords[k])
    /\ \A a \in Range(AliasKeys(gen, coords[k].name)) : ~Present(a)
    /\ Present(coords[k].name)

C4_ExactName_AllGenerators ==
    \A k \in DOMAIN coords :
      (C4_Case(k) /\ gen # "valida")
        => TextsOf(coords[k].name) = {vars_data[coords[k].name]}

(***************************************************************************)
(* C4 (amended) - Only draw_value of the control-slip generator consults   *)
(* the field's own name: there a non-blank own-name value is the drawn     *)
(* text, beating the base-name value and the default; the ticket generator *)
(* and gerar_overlay_controle never draw the own-name value.               *)
(***************************************************************************)
C4_ExactName_DrawValue ==
    \A k \in DOMAIN coords :
      C4_Case(k) =>
        /\ gen = "overlay" => TextsOf(coords[k].name) = {vars_data[coords[k].name]}
        /\ gen \in {"ticket", "controle"}
             => vars_data[coords[k].name] \notin TextsOf(coords[k].name)

C4_Witness ==
    \E k \in DOMAIN coords :
      /\ gen = "overlay" /\ pc = "saved" /\ C4_Case(k)
      /\ Present(BaseKey(coords[k].name)) /\ ~IsBlank(Texto(k))

(***************************************************************************)
(* C5 - Literal default (every field): when the values map holds none of   *)
(* the field's alias keys, nor its name, nor its base name, the field's    *)
(* text is its default text, drawn when non-blank.                         *)
(***************************************************************************)
C5_Case(k) ==
    /\ Done(k) /\ Drawable(coords[k]) /\ gen # "valida"
    /\ Consulted(gen, coords[k].name) \cap DOMAIN vars_data = {}

C5_Default(k) ==
    /\ \A t \in TextsOf(coords[k].name) : t = Texto(k)
    /\ ~IsBlank(Texto(k)) => TextsOf(coords[k].name) = {Texto(k)}

C5_LiteralDefault_EveryField ==
    \A k \in DOMAIN coords : C5_Case(k) => C5_Default(k)

(***************************************************************************)
(* C5 (amended) - As C5, except linha_valor_2 in the ticket generator: its *)
(* text is then empty and no instruction is emitted for it.                *)
(***************************************************************************)
C5_LiteralDefault_ExceptLinha2 ==
    \A k \in DOMAIN coords :
      C5_Case(k) =>
        IF gen = "ticket" /\ coords[k].name = "linha_valor_2"
        THEN \A j \in DOMAIN canvas : canvas[j].name # "linha_valor_2"
        ELSE C5_Default(k)

C5_Witness ==
    /\ gen = "ticket" /\ pc = "saved"
    /\ \E k \in DOMAIN coords :
         C5_Case(k) /\ coords[k].name = "linha_valor_2" /\ ~IsBlank(Texto(k))
    /\ \E k \in DOMAIN coords :
         C5_Case(k) /\ coords[k].name # "linha_valor_2" /\ ~IsBlank(Texto(k))

(***************************************************************************)
(* C6 - Alias list order: a ticket field with several alias keys is drawn  *)
(* with the value of the first key of the list that holds a non-blank      *)
(* value; a later key is used only when every earlier one is missing or    *)
(* blank.                                                                  *)
(***************************************************************************)
C6_Case(k) ==
    /\ gen = "ticket" /\ Done(k) /\ Drawable(coords[k])
    /\ Len(AliasKeys(gen, coords[k].name)) >= 2
    /\ FirstPresent(AliasKeys(gen, coords[k].name)) # {}

C6_AliasListOrder ==
    \A k \in DOMAIN coords :
      C6_Case(k) =>
        TextsOf(coords[k].name)
          = {vars_data[key] : key \in FirstPresent(AliasKeys(gen, coords[k].name))}

C6_Witness ==
    \E k \in DOMAIN coords :
      /\ C6_Case(k) /\ pc = "saved"
      /\ \A a \in Range(AliasKeys(gen, coords[k].name)) : Present(a)

(***************************************************************************)
(* C7 - No instruction for blank text: a generation run emits no string    *)
(* instruction whose text is empty or whitespace-only, and no proof marker *)
(* or box for a field that has no non-blank string instruction.            *)
(***************************************************************************)
C7_NoInstructionForBlank ==
    gen # "valida" =>
      \A j \in DOMAIN canvas :
        IF canvas[j].op # "rect"
        THEN ~IsBlank(canvas[j].text)
        ELSE \E t \in TextsOf(canvas[j].name) : ~IsBlank(t)

(***************************************************************************)
(* C8 - Right-column alignment: in the ticket generator, when the money    *)
(* fields of the coordinate map all carry a position, every one that is    *)
(* drawn is drawn right-aligned at one x, the maximum of authored x times  *)
(* scale_x over those fields, whatever its own x and alignment.            *)
(***************************************************************************)
RightFields == {k \in DOMAIN coords : coords[k].name \in RIGHT_KEYS /\ coords[k].isdict}

C8_Case ==
    /\ gen = "ticket" /\ pc \in {"loop", "saved"}
    /\ RightFields # {}
    /\ \A k \in RightFields : Drawable(coords[k])

C8_RightColumn ==
    C8_Case =>
      /\ \A j \in DOMAIN canvas :
           (canvas[j].name \in RIGHT_KEYS /\ canvas[j].op # "rect") =>
             /\ canvas[j].op = "drawRightString"
             /\ canvas[j].x = RMaxOf({RMul(R(coords[k].meta["pos"][1]), scale[1]) :
                                        k \in RightFields})
      /\ \A k \in RightFields :
           (Done(k) /\ Present(KEY_MAP[coords[k].name][1]))
             => TextInstrs(coords[k].name) # {}

C8_Witness ==
    /\ C8_Case /\ pc = "saved" /\ scale[1] = Rat(1, 2)
    /\ \E a, b \in RightFields :
         /\ coords[a].meta["pos"][1] < coords[b].meta["pos"][1]
         /\ coords[a].meta["align"] = "center"
         /\ TextInstrs(coords[a].name) # {} /\ TextInstrs(coords[b].name) # {}

(***************************************************************************)
(* C9 - Per-axis scale (every program that scales): each axis is the page  *)
(* dimension over its own reference dimension, 1 when that reference       *)
(* dimension is zero or absent, and the run does not fail because a        *)
(* reference dimension is missing.                                         *)
(***************************************************************************)
RefW == CoordsNum(coords, "_ref_width", R(0))
RefH == CoordsNum(coords, "_ref_height", R(0))

\* the page size each program measures on a readable background
PageOf(g) ==
    IF g = "overlay" THEN <<RDiv(R(bg.w), mm), RDiv(R(bg.h), mm)>>
    ELSE <<R(bg.w), R(bg.h)>>

PerAxis(g) ==
    << IF RIsZero(RefW) THEN R(1) ELSE RDiv(PageOf(g)[1], RefW),
       IF RIsZero(RefH) THEN R(1) ELSE RDiv(PageOf(g)[2], RefH) >>

\* the run ended in its setup step
FailedInSetup == pc = "failed" /\ page = <<R(0), R(0)>>

C9_PerAxisScale_Everywhere ==
    (gen \in {"ticket", "overlay", "valida"} /\ bg.ok) =>
      /\ pc \in {"loop", "saved"} => scale = PerAxis(gen)
      /\ ~FailedInSetup

(***************************************************************************)
(* C9 (amended) - With both reference dimensions non-zero every program    *)
(* uses page over reference on each axis. get_scale of the control-slip    *)
(* generator resets only the axis whose reference dimension is zero or     *)
(* absent; the ticket generator resets both axes to 1 as soon as either is *)
(* zero or absent; neither fails for that reason. valida_layout ends with  *)
(* an error instead.                                                       *)
(***************************************************************************)
C9_ScalePerProgram ==
    bg.ok =>
      /\ gen = "overlay" =>
           /\ pc \in {"loop", "saved"} => scale = PerAxis(gen)
           /\ ~FailedInSetup
      /\ gen = "ticket" =>
           /\ pc \in {"loop", "saved"} =>
                scale = IF RIsZero(RefW) \/ RIsZero(RefH) THEN <<R(1), R(1)>>
                        ELSE PerAxis(gen)
           /\ ~FailedInSetup
      /\ gen = "valida" =>
           /\ pc \in {"loop", "saved"} =>
                ~RIsZero(RefW) /\ ~RIsZero(RefH) /\ scale = PerAxis(gen)
           /\ (RIsZero(RefW) \/ RIsZero(RefH)) => pc \in {"start", "failed"}

C9_Witness ==
    /\ gen = "ticket" /\ pc = "saved" /\ bg.ok
    /\ ~RIsZero(RefW) /\ RIsZero(RefH)
    /\ scale = <<R(1), R(1)>> /\ PerAxis(gen) = <<Rat(1, 2), R(1)>>

(***************************************************************************)
(* C10 - Worked scenario: reference 600 x 2000, page 300 x 1000, field     *)
(* origem_valor at [50, 1800], 22 pt, left, empty default, values          *)
(* {origem: Springfield}, invert_y, baseline factor 0.30: the scale is     *)
(* 0.5 on both axes and the one instruction draws "Springfield" at x = 25, *)
(* y = 93.4, which is 100 before the baseline correction.                  *)
(***************************************************************************)
C10_Scenario ==
    /\ gen = "ticket"
    /\ coords = RefItems(600, 2000)
                  \o << Field("origem_valor", [texto |-> "", pos |-> <<50, 1800>>,
                                               pt |-> 22, align |-> "left"]) >>
    /\ vars_data = [origem |-> "Springfield"]
    /\ bg = [ok |-> TRUE, w |-> 300, h |-> 1000]
    /\ args = [invert_y |-> TRUE, proof |-> FALSE, baseline_fix |-> Rat(3, 10),
               keep |-> FALSE]

C10_WorkedScenario ==
    C10_Scenario =>
      /\ pc = "failed" => tmp = "written"     \* the rendering never fails
      /\ pc # "start" => scale = <<Rat(1, 2), Rat(1, 2)>>
      /\ i <= 3 => canvas = << >>
      /\ i > 3 =>
           /\ Len(canvas) = 1
           /\ canvas[1].op = "drawString" /\ canvas[1].name = "origem_valor"
           /\ canvas[1].text = "Springfield"
           /\ canvas[1].x = R(25)
           /\ canvas[1].y = Rat(934, 10)
           /\ RAdd(canvas[1].y, RMul(Rat(30, 100), R(22))) = R(100)

C10_Witness == C10_Scenario /\ pc = "saved" /\ Len(canvas) = 1

(***************************************************************************)
(* Geometry vocabulary.                                                    *)
(***************************************************************************)
\* the declared position of a field and its font size
PosX(k) == R(coords[k].meta["pos"][1])
PosY(k) == R(coords[k].meta["pos"][2])
Pt(k) == R(Get(coords[k].meta, "pt", IF gen \in {"ticket", "valida"} THEN 22 ELSE 8))

\* the declared y after scaling and, if requested, inversion
ScaledY(k) ==
    IF args.invert_y THEN RSub(page[2], RMul(PosY(k), scale[2]))
    ELSE RMul(PosY(k), scale[2])

\* baseline_factor * font_size of a field
Correction(k) == RMul(args.baseline_fix, Pt(k))

(***************************************************************************)
(* C11 - Baseline correction direction: every drawn field of the ticket    *)
(* has final y = scaled (and, if requested, inverted) y minus              *)
(* baseline_factor * font_size when invert_y is set, and plus              *)
(* baseline_factor * font_size when it is not; the factor is one value for *)
(* the whole page.                                                         *)
(***************************************************************************)
C11_Case(k) == gen = "ticket" /\ Done(k) /\ Drawable(coords[k])

C11_BaselineDirection ==
    \A k \in DOMAIN coords :
      C11_Case(k) =>
        \A j \in TextInstrs(coords[k].name) :
          canvas[j].y = IF args.invert_y THEN RSub(ScaledY(k), Correction(k))
                        ELSE RAdd(ScaledY(k), Correction(k))

(***************************************************************************)
(* C11 (amended) - Every drawn field of the ticket has final y = scaled    *)
(* (and, if requested, inverted) y minus baseline_factor * font_size,      *)
(* whether or not invert_y is set; the factor is the one value of the      *)
(* command line, applied to every field.                                   *)
(***************************************************************************)
C11_BaselineSubtracted ==
    \A k \in DOMAIN coords :
      C11_Case(k) =>
        \A j \in TextInstrs(coords[k].name) :
          canvas[j].y = RSub(ScaledY(k), Correction(k))

C11_Witness ==
    /\ gen = "ticket" /\ pc = "saved" /\ ~args.invert_y
    /\ \E a, b \in DOMAIN coords :
         /\ a # b /\ C11_Case(a) /\ C11_Case(b)
         /\ TextInstrs(coords[a].name) # {} /\ TextInstrs(coords[b].name) # {}
         /\ PosY(a) # PosY(b)

(***************************************************************************)
(* C12 - Round trip at identity: with scale 1 on both axes and invert_y    *)
(* not set, every drawn field that is not a right-column field is anchored *)
(* at its declared x, and at its declared y before the baseline correction *)
(* (the control-slip generators work in millimetres: the declared position *)
(* times one millimetre, and they apply no baseline correction).           *)
(***************************************************************************)
\* points per unit of the coordinate map
UnitOf(g) == IF g = "ticket" THEN R(1) ELSE mm

\* the x a string instruction is anchored at, before its alignment shift
AnchorX(k, j) ==
    IF gen = "overlay"
    THEN LET w == stringWidth(canvas[j].text, canvas[j].font, canvas[j].pt)
             al == lower(Get(coords[k].meta, "align", "left"))
         IN  IF al = "center" THEN RAdd(canvas[j].x, RDiv(w, R(2)))
             ELSE IF al = "right" THEN RAdd(canvas[j].x, w)
             ELSE canvas[j].x
    ELSE canvas[j].x

C12_Case(k) ==
    /\ gen \in {"ticket", "controle", "overlay"}
    /\ Done(k) /\ Drawable(coords[k])
    /\ scale = <<R(1), R(1)>> /\ ~args.invert_y
    /\ ~(gen = "ticket" /\ coords[k].name \in RIGHT_KEYS)

C12_RoundTripAtIdentity ==
    \A k \in DOMAIN coords :
      C12_Case(k) =>
        \A j \in TextInstrs(coords[k].name) :
          /\ AnchorX(k, j) = RMul(PosX(k), UnitOf(gen))
          /\ (IF gen = "ticket" THEN RAdd(canvas[j].y, Correction(k)) ELSE canvas[j].y)
               = RMul(PosY(k), UnitOf(gen))

C12_Witness ==
    /\ pc = "saved" /\ gen = "ticket" /\ bg.ok
    /\ \E k \in DOMAIN coords :
         /\ C12_Case(k) /\ TextInstrs(coords[k].name) # {}
         /\ coords[k].meta["pos"] = <<120, 400>>

\* where a field is anchored, and on which baseline, when nothing but its
\* own position, the scale, the orientation and the baseline factor count
BaseX(k) == RMul(RMul(PosX(k), scale[1]), UnitOf(gen))
BaseY(k) ==
    IF gen = "ticket" THEN RSub(ScaledY(k), Correction(k)) ELSE RMul(ScaledY(k), mm)

\* the offsets a record carries, 0 when it carries none
Dx(k) == R(Get(coords[k].meta, "dx", 0))
Dy(k) == R(Get(coords[k].meta, "dy", 0))

\* a field whose position is its own: drawn by one of the three generators,
\* outside the right column of the ticket
OwnPlace(k) ==
    /\ gen \in {"ticket", "controle", "overlay"}
    /\ Done(k) /\ Drawable(coords[k])
    /\ ~(gen = "ticket" /\ coords[k].name \in RIGHT_KEYS)

(***************************************************************************)
(* C13 - Manual offsets: a field record carrying dx and/or dy is drawn     *)
(* dx * scale_x further right, and dy * scale_y away on y after scaling,   *)
(* inversion and baseline correction, the y sign flipped when invert_y is  *)
(* set; a record without them is positioned as if both were 0.             *)
(***************************************************************************)
C13_ManualOffsets ==
    \A k \in DOMAIN coords :
      OwnPlace(k) =>
        \A j \in TextInstrs(coords[k].name) :
          /\ AnchorX(k, j) = RAdd(BaseX(k), RMul(RMul(Dx(k), scale[1]), UnitOf(gen)))
          /\ canvas[j].y =
               IF args.invert_y
               THEN RSub(BaseY(k), RMul(RMul(Dy(k), scale[2]), UnitOf(gen)))
               ELSE RAdd(BaseY(k), RMul(RMul(Dy(k), scale[2]), UnitOf(gen)))

(***************************************************************************)
(* C13 (amended) - No manual offsets: every field record, whether or not   *)
(* it carries dx and/or dy, is positioned as if both were 0: its anchor is *)
(* its scaled x, its y the scaled, inverted and baseline-corrected y.      *)
(***************************************************************************)
C13_OffsetsIgnored ==
    \A k \in DOMAIN coords :
      OwnPlace(k) =>
        \A j \in TextInstrs(coords[k].name) :
          AnchorX(k, j) = BaseX(k) /\ canvas[j].y = BaseY(k)

C13_Witness ==
    /\ gen = "ticket" /\ pc = "saved"
    /\ \E k \in DOMAIN coords :
         /\ OwnPlace(k) /\ TextInstrs(coords[k].name) # {}
         /\ {"dx", "dy"} \subseteq DOMAIN coords[k].meta
         /\ ~RIsZero(Dx(k)) /\ ~RIsZero(Dy(k))

(***************************************************************************)
(* Group vocabulary.                                                       *)
(***************************************************************************)
IndexOf(name) == CHOOSE k \in DOMAIN coords : coords[k].name = name

\* the left edge of a string instruction and the width of its text
WidthOf(j) == stringWidth(canvas[j].text, canvas[j].font, canvas[j].pt)
LeftX(j) ==
    IF canvas[j].op = "drawCentredString" THEN RSub(canvas[j].x, RDiv(WidthOf(j), R(2)))
    ELSE IF canvas[j].op = "drawRightString" THEN RSub(canvas[j].x, WidthOf(j))
    ELSE canvas[j].x

\* the page width in points
PageWidthPt == RMul(page[1], UnitOf(gen))

\* the two-member groups whose members have both been drawn
DrawnPairs ==
    {g \in DOMAIN Groups(coords) :
       /\ Len(Groups(coords)[g]) = 2
       /\ \A m \in 1..2 :
            /\ Groups(coords)[g][m] \in Keys(coords)
            /\ OwnPlace(IndexOf(Groups(coords)[g][m]))
            /\ TextInstrs(Groups(coords)[g][m]) # {}}

(***************************************************************************)
(* C14 - Group centring: the first member of a two-member group is drawn   *)
(* with left x = (P - w1 - w2) / 2 and the second with left x = that value *)
(* + w1, whatever the declared x and alignment of either member.           *)
(***************************************************************************)
C14_GroupCentering ==
    \A g \in DrawnPairs :
      \A j1 \in TextInstrs(Groups(coords)[g][1]) :
      \A j2 \in TextInstrs(Groups(coords)[g][2]) :
        /\ LeftX(j1) = RDiv(RSub(RSub(PageWidthPt, WidthOf(j1)), WidthOf(j2)), R(2))
        /\ LeftX(j2) = RAdd(LeftX(j1), WidthOf(j1))

(***************************************************************************)
(* C14 (amended) - No group centring: each member of a declared group is   *)
(* drawn from its own declared x and alignment: its left x is its scaled x *)
(* when left-aligned, that minus half the width of its text when centred,  *)
(* that minus the width when right-aligned.                                *)
(***************************************************************************)
DeclaredShift(k, w) ==
    LET al == lower(Get(coords[k].meta, "align", "left"))
    IN  IF al = "center" THEN RDiv(w, R(2)) ELSE IF al = "right" THEN w ELSE R(0)

C14_OwnPositionAndAlignment ==
    \A g \in DrawnPairs :
      \A m \in 1..2 :
        \A j \in TextInstrs(Groups(coords)[g][m]) :
          LeftX(j) = RSub(BaseX(IndexOf(Groups(coords)[g][m])),
                          DeclaredShift(IndexOf(Groups(coords)[g][m]), WidthOf(j)))

C14_Witness ==
    /\ gen = "ticket" /\ pc = "saved" /\ DrawnPairs # {}
    /\ \E g \in DrawnPairs :
         coords[IndexOf(Groups(coords)[g][2])].meta["align"] = "center"

(***************************************************************************)
(* C15 - Group exclusivity: every field of a declared group is drawn       *)
(* exactly once, on the baseline of the first member of its group, and     *)
(* never by the per-field loop at its own declared position.               *)
(***************************************************************************)
\* the members of the declared groups whose iteration has completed
DoneMembers ==
    {k \in DOMAIN coords : coords[k].name \in GroupMembers(coords) /\ OwnPlace(k)}

\* the first member of the group a field belongs to
FirstOf(k) ==
    IndexOf(Groups(coords)[CHOOSE g \in DOMAIN Groups(coords) :
                             \E m \in DOMAIN Groups(coords)[g] :
                               Groups(coords)[g][m] = coords[k].name][1])

\* the text of the field is known to be non-blank: a non-blank default that
\* nothing replaces, or a non-blank value under a key the generator consults
HasText(k) ==
    \/ /\ Consulted(gen, coords[k].name) \cap DOMAIN vars_data = {}
       /\ ~IsBlank(Texto(k))
       /\ ~(gen = "ticket" /\ coords[k].name = "linha_valor_2")
    \/ /\ gen \in {"ticket", "controle"}
       /\ AliasKeys(gen, coords[k].name) # << >>
       /\ Present(AliasKeys(gen, coords[k].name)[1])
    \/ gen = "overlay" /\ Present(coords[k].name)

C15_GroupExclusivity ==
    \A k \in DoneMembers :
      HasText(k) =>
        /\ Cardinality(TextInstrs(coords[k].name)) = 1
        /\ \A j \in TextInstrs(coords[k].name) :
             /\ canvas[j].y = BaseY(FirstOf(k))
             /\ ~(AnchorX(k, j) = BaseX(k) /\ canvas[j].y = BaseY(k))

(***************************************************************************)
(* C15 (amended) - Every field of a declared group whose text is non-blank *)
(* is drawn exactly once, by the per-field loop, at its own declared       *)
(* position and on its own baseline; no group pass draws it.               *)
(***************************************************************************)
C15_DrawnOnceAtOwnPosition ==
    \A k \in DoneMembers :
      HasText(k) =>
        /\ Cardinality(TextInstrs(coords[k].name)) = 1
        /\ \A j \in TextInstrs(coords[k].name) :
             AnchorX(k, j) = BaseX(k) /\ canvas[j].y = BaseY(k)

C15_Witness ==
    /\ gen = "ticket" /\ pc = "saved"
    /\ \E a, b \in DoneMembers :
         /\ HasText(a) /\ HasText(b)
         /\ FirstOf(b) = a /\ a # b
         /\ BaseY(a) # BaseY(b)

(***************************************************************************)
(* Vocabulary of the robustness properties.                                *)
(***************************************************************************)
\* a field record without a position, and one whose position is malformed
NoPos(e) == e.isdict /\ ~startswith(e.name, "_") /\ "pos" \notin DOMAIN e.meta
BadPos(e) ==
    /\ e.isdict /\ ~startswith(e.name, "_")
    /\ "pos" \in DOMAIN e.meta /\ Len(e.meta["pos"]) # 2

\* the run ended with an error in the iteration of item k
FailedAt(k) == pc = "failed" /\ i = k /\ tmp # "written"

(***************************************************************************)
(* C16 - Records without a position are ignored: an entry of the           *)
(* coordinate map that has no pos yields no draw instruction and no error, *)
(* even when its text is non-blank.                                        *)
(***************************************************************************)
C16_NoPositionIgnored ==
    gen # "valida" =>
      \A k \in DOMAIN coords :
        NoPos(coords[k]) =>
          /\ \A j \in DOMAIN canvas : canvas[j].name # coords[k].name
          /\ ~FailedAt(k)

(***************************************************************************)
(* C17 - Invalid position shape is local: a field record whose pos is not  *)
(* a 2-element sequence is skipped; the run does not end there, and every  *)
(* other drawable field whose text is non-blank has been drawn once its    *)
(* turn has passed.                                                        *)
(***************************************************************************)
C17_BadPositionIsLocal ==
    gen # "valida" =>
      \A k \in DOMAIN coords :
        BadPos(coords[k]) =>
          /\ \A j \in DOMAIN canvas : canvas[j].name # coords[k].name
          /\ ~FailedAt(k)
          /\ \A o \in DOMAIN coords :
               (o # k /\ Done(o) /\ Drawable(coords[o]) /\ HasText(o))
                 => TextInstrs(coords[o].name) # {}

(***************************************************************************)
(* C18 - Unmeasurable background: when the size of the background page     *)
(* cannot be read the generator does not stop there; it warns and goes on  *)
(* to render the overlay with a fixed default page size.                   *)
(***************************************************************************)
C18_DefaultPageSize ==
    (gen \in {"ticket", "overlay"} /\ ~bg.ok) =>
      /\ ~FailedInSetup
      /\ pc # "start" => (warned /\ page = A4)

(***************************************************************************)
(* C19 - No partial output: a run that ends in failure leaves no file at   *)
(* the output path, neither empty nor truncated, and a failed run is not   *)
(* resumed.                                                                *)
(***************************************************************************)
C19_NoPartialOutput ==
    pc = "failed" => out = "absent"

(***************************************************************************)
(* C20 - Concurrent runs are isolated: with distinct output paths, in any  *)
(* interleaving of the render, merge and cleanup steps, no run finds its   *)
(* temporary overlay overwritten or deleted by the other, none fails, and  *)
(* the final document of each contains its own overlay.                    *)
(***************************************************************************)
C20_ConcurrentRunsIsolated ==
    \A p \in DOMAIN procs :
      /\ procs[p].pc # "failed"
      /\ (procs[p].pc = "saved" /\ overlay_tmp(p) # << >>)
           => /\ overlay_tmp(p) \in DOMAIN files
              /\ files[overlay_tmp(p)] = <<"overlay", p>>
      /\ procs[p].pc \in {"merged", "written", "done"} => procs[p].ov = p
      /\ procs[p].pc \in {"written", "done"}
           => /\ procs[p].out_path \in DOMAIN files
              /\ files[procs[p].out_path] = <<"final", p>>

(***************************************************************************)
(* Vocabulary of the font, orientation and proof properties.               *)
(***************************************************************************)
\* the face a field record asks for, and whether the canvas knows it
FontOf(k) == Get(coords[k].meta, "font", "Helvetica")
UnknownFont(k) == FontOf(k) \notin RegisteredFonts

(***************************************************************************)
(* C21 - Font fallback: in every generator variant a field whose font name *)
(* is unknown or unregistered is still drawn, in Helvetica at the field's  *)
(* size, and the render does not fail at that field.                       *)
(***************************************************************************)
C21_FontFallback ==
    gen # "valida" =>
      \A k \in DOMAIN coords :
        (Drawable(coords[k]) /\ UnknownFont(k) /\ HasText(k)) =>
          /\ ~FailedAt(k)
          /\ \A j \in TextInstrs(coords[k].name) :
               canvas[j].font = "Helvetica" /\ canvas[j].pt = Pt(k)
          /\ Done(k) => TextInstrs(coords[k].name) # {}

(***************************************************************************)
(* C22 - Inputs are read-only: no step of a generation run adds, removes   *)
(* or changes an entry of the coordinate/style map or of the values map;   *)
(* both maps are the same before and after the run, whether it succeeds or *)
(* fails.                                                                  *)
(***************************************************************************)
C22_InputsReadOnly ==
    [][coords' = coords /\ vars_data' = vars_data]_vars

C22_Witness ==
    /\ pc = "done" /\ gen = "ticket"
    /\ canvas # << >> /\ DOMAIN vars_data # {}
    /\ \E k \in DOMAIN coords : Done(k) /\ TextInstrs(coords[k].name) # {}

(***************************************************************************)
(* C23 - Y inversion: for every drawn field, the y used for drawing before *)
(* the baseline correction is page_height - (authored y * scale_y) when    *)
(* invert_y is set and authored y * scale_y when it is not; the inversion  *)
(* comes after the scaling and never changes x.                            *)
(***************************************************************************)
\* the y of a string instruction with the baseline correction taken back
PreCorrectionY(k, j) ==
    IF gen = "ticket" THEN RAdd(canvas[j].y, Correction(k)) ELSE canvas[j].y

\* the x a field is anchored at whatever the orientation: the right column
\* for the right-column fields of the ticket, its own scaled x otherwise
ExpectedX(k) ==
    IF gen = "ticket" /\ coords[k].name \in RIGHT_KEYS THEN col_r ELSE BaseX(k)

C23_Case(k) ==
    /\ gen \in {"ticket", "controle", "overlay"}
    /\ Done(k) /\ Drawable(coords[k])

C23_YInversion ==
    \A k \in DOMAIN coords :
      C23_Case(k) =>
        \A j \in TextInstrs(coords[k].name) :
          /\ args.invert_y =>
               PreCorrectionY(k, j)
                 = RMul(RSub(page[2], RMul(PosY(k), scale[2])), UnitOf(gen))
          /\ ~args.invert_y =>
               PreCorrectionY(k, j) = RMul(RMul(PosY(k), scale[2]), UnitOf(gen))
          /\ AnchorX(k, j) = ExpectedX(k)

C23_Witness ==
    /\ gen = "ticket" /\ pc = "saved" /\ args.invert_y
    /\ scale[2] = Rat(1, 2)
    /\ \E a, b \in DOMAIN coords :
         /\ C23_Case(a) /\ C23_Case(b)
         /\ TextInstrs(coords[a].name) # {} /\ TextInstrs(coords[b].name) # {}
         /\ coords[a].name \in RIGHT_KEYS /\ coords[b].name \notin RIGHT_KEYS

\* the diagnostic shapes emitted for a field: the plain squares and the
\* dashed boxes
Shapes(name) == {j \in DOMAIN canvas : canvas[j].name = name /\ canvas[j].op = "rect"}
Markers(name) == {j \in Shapes(name) : ~canvas[j].dash}
Boxes(name) == {j \in Shapes(name) : canvas[j].dash}

\* the fields of a run of one of the three generators
ProofFields ==
    IF gen \in {"ticket", "controle", "overlay"}
    THEN {k \in DOMAIN coords : coords[k].isdict /\ ~startswith(coords[k].name, "_")}
    ELSE {}

\* a square centred on the anchor of string instruction j of field k
CentredOn(m, k, j) ==
    /\ canvas[m].w = canvas[m].h
    /\ RAdd(canvas[m].x, RDiv(canvas[m].w, R(2)))
         = (IF gen = "ticket" THEN canvas[j].x ELSE AnchorX(k, j))
    /\ RAdd(canvas[m].y, RDiv(canvas[m].h, R(2))) = canvas[j].y

\* a box as wide as the measured text and as high as the point size, with
\* 2 points of padding on every side
SizedBy(b, j) ==
    /\ canvas[b].w = RAdd(WidthOf(j), R(4))
    /\ canvas[b].h = RAdd(canvas[j].pt, R(4))
    /\ canvas[b].y = RSub(canvas[j].y, R(2))

(***************************************************************************)
(* C24 - Proof markers only in proof mode: with proof disabled no          *)
(* diagnostic shape is emitted for any field; with proof enabled each      *)
(* emitted text instruction comes with both a small square marker centred  *)
(* on its anchor and a dashed bounding box sized by the measured text      *)
(* width and the point size; skipped (blank) fields get neither.           *)
(***************************************************************************)
C24_MarkerAndBox ==
    \A k \in ProofFields :
      /\ ~args.proof => Shapes(coords[k].name) = {}
      /\ TextInstrs(coords[k].name) = {} => Shapes(coords[k].name) = {}
      /\ args.proof =>
           \A j \in TextInstrs(coords[k].name) :
             /\ \E m \in Markers(coords[k].name) : CentredOn(m, k, j)
             /\ \E b \in Boxes(coords[k].name) : SizedBy(b, j)

(***************************************************************************)
(* C24 (amended) - With proof disabled no diagnostic shape is emitted, and *)
(* a field with no text instruction never gets one. With proof enabled     *)
(* each text instruction of the ticket comes with one 3-point square       *)
(* centred on its anchor and one dashed box sized by the measured text     *)
(* width and the point size; gerar_overlay_controle emits the dashed box   *)
(* only, starting at the left edge of the text; draw_value emits only a    *)
(* 1.6 mm square centred on the anchor.                                    *)
(***************************************************************************)
C24_ShapesPerGenerator ==
    \A k \in ProofFields :
      /\ ~args.proof => Shapes(coords[k].name) = {}
      /\ TextInstrs(coords[k].name) = {} => Shapes(coords[k].name) = {}
      /\ args.proof =>
           \A j \in TextInstrs(coords[k].name) :
             /\ gen = "ticket" =>
                  /\ Cardinality(Markers(coords[k].name)) = 1
                  /\ Cardinality(Boxes(coords[k].name)) = 1
                  /\ \A m \in Markers(coords[k].name) :
                       CentredOn(m, k, j) /\ canvas[m].w = R(3)
                  /\ \A b \in Boxes(coords[k].name) : SizedBy(b, j)
             /\ gen = "controle" =>
                  /\ Markers(coords[k].name) = {}
                  /\ Cardinality(Boxes(coords[k].name)) = 1
                  /\ \A b \in Boxes(coords[k].name) :
                       SizedBy(b, j) /\ canvas[b].x = RSub(LeftX(j), R(2))
             /\ gen = "overlay" =>
                  /\ Boxes(coords[k].name) = {}
                  /\ Cardinality(Markers(coords[k].name)) = 1
                  /\ \A m \in Markers(coords[k].name) :
                       CentredOn(m, k, j) /\ canvas[m].w = RMul(Rat(8, 5), mm)

C24_Witness ==
    /\ gen = "ticket" /\ pc = "saved" /\ args.proof
    /\ \E a, b \in ProofFields :
         /\ TextInstrs(coords[a].name) # {} /\ Shapes(coords[a].name) # {}
         /\ Done(b) /\ Drawable(coords[b]) /\ TextInstrs(coords[b].name) = {}

(***************************************************************************)
(* C25 - Reserved keys are not fields: every key of the coordinate map     *)
(* that begins with an underscore is skipped by the drawing loop and never *)
(* yields a draw instruction, whatever its value: a number, a table, or a  *)
(* record that would be drawn, or would end the run, under another name.   *)
(***************************************************************************)
Reserved(k) == Len(coords[k].name) >= 1 /\ SubSeq(coords[k].name, 1, 1) = "_"

C25_ReservedKeysSkipped ==
    \A k \in DOMAIN coords :
      Reserved(k) =>
        /\ \A j \in DOMAIN canvas : canvas[j].name # coords[k].name
        /\ FailedAt(k) => FailedInSetup

C25_Witness ==
    /\ pc = "saved" /\ canvas # << >>
    /\ \E k \in DOMAIN coords :
         /\ Reserved(k) /\ coords[k].isdict /\ Done(k)
         /\ ~IsBlank(Texto(k))

(***************************************************************************)
(* C26 - The second line of the route is never inherited: in the ticket    *)
(* generator, when the values map has no non-blank "linha2" the field      *)
(* linha_valor_2 is not drawn at all, even if its record carries a         *)
(* non-blank default text; when only "linha" is given, linha_valor_1 shows *)
(* the "linha" value and linha_valor_2 stays empty.                        *)
(***************************************************************************)
C26_Case(k) == gen = "ticket" /\ Done(k) /\ Drawable(coords[k])

C26_SecondLineNotInherited ==
    \A k \in DOMAIN coords :
      C26_Case(k) =>
        /\ (coords[k].name = "linha_valor_2" /\ ~Present("linha2"))
             => \A j \in DOMAIN canvas : canvas[j].name # "linha_valor_2"
        /\ (coords[k].name = "linha_valor_2" /\ Present("linha2"))
             => TextsOf("linha_valor_2") = {vars_data["linha2"]}
        /\ (coords[k].name = "linha_valor_1" /\ Present("linha") /\ ~Present("linha1"))
             => TextsOf("linha_valor_1") = {vars_data["linha"]}

C26_Witness ==
    /\ gen = "ticket" /\ pc = "saved"
    /\ Present("linha") /\ ~Present("linha1") /\ ~Present("linha2")
    /\ "linha2" \in DOMAIN vars_data
    /\ \E a, b \in DOMAIN coords :
         /\ C26_Case(a) /\ coords[a].name = "linha_valor_1"
         /\ TextsOf("linha_valor_1") = {vars_data["linha"]}
         /\ C26_Case(b) /\ coords[b].name = "linha_valor_2" /\ ~IsBlank(Texto(b))

(***************************************************************************)
(* C27 - Key presence wins in draw_value: whenever the field's name is a   *)
(* key of the values map the drawn text is that value, even when it is the *)
(* empty string, which suppresses the record's default text; the default   *)
(* text is used only when the key is absent from the values map.           *)
(***************************************************************************)
C27_Case(k) == gen = "overlay" /\ Done(k) /\ Drawable(coords[k])

C27_KeyPresenceWins ==
    \A k \in DOMAIN coords :
      C27_Case(k) =>
        /\ Cardinality(TextInstrs(coords[k].name)) = 1
        /\ coords[k].name \in DOMAIN vars_data
             => TextsOf(coords[k].name) = {vars_data[coords[k].name]}
        /\ coords[k].name \notin DOMAIN vars_data
             => TextsOf(coords[k].name) = {Texto(k)}

C27_Witness ==
    /\ gen = "overlay" /\ pc = "saved"
    /\ \E a, b \in DOMAIN coords :
         /\ C27_Case(a) /\ coords[a].name \in DOMAIN vars_data
         /\ vars_data[coords[a].name] = "" /\ ~IsBlank(Texto(a))
         /\ TextsOf(coords[a].name) = {""}
         /\ C27_Case(b) /\ coords[b].name \notin DOMAIN vars_data
         /\ ~IsBlank(Texto(b))

(***************************************************************************)
(* Vocabulary of the overlay lifecycle.                                    *)
(***************************************************************************)
\* the programs whose overlay is a temporary file
OverlayOnDisk == gen \in {"ticket", "overlay", "valida"}

\* the overlay is completely written while the merge step and the writing
\* of the output go on, and it is not gone before the output is written
WrittenBeforeMerge == pc \in {"saved", "merged", "written"} => tmp = "written"
OutputBeforeRemoval ==
    /\ pc \in {"written", "done"} => out = "final"
    /\ (tmp = "absent" /\ pc \notin {"start", "loop", "failed"}) => pc = "done"

ScriptOf(t) == IF t = "ticket" THEN GERA_TICKET ELSE GERA_CONTROLE
Required(t) ==
    IF t = "ticket" THEN {GERA_TICKET, BG_TICKET, COORDS_TICKET, VARS_TICKET}
    ELSE {GERA_CONTROLE, BG_CONTROLE, COORDS_CONTROLE, VARS_CONTROLE}

\* this step starts the generator process of tab t
Launched(t) == launches' = launches + 1 /\ cmd'[2] = ScriptOf(t)

\* this step is a click on a "Gerar" button that was refused
Refused == dialog' = "Arquivos ausentes" /\ dialog # "Arquivos ausentes"

\* a flag of a command line, and the argument that follows an option
HasFlag(c, f) == \E n \in DOMAIN c : c[n] = f
ArgOf(c, f) == c[(CHOOSE n \in DOMAIN c : c[n] = f) + 1]

\* float("d.dd"), in hundredths
DigitVal(c) == CHOOSE d \in 0..9 : Digit(d) = c
Hundredths(s) ==
    100 * DigitVal(SubSeq(s, 1, 1)) + 10 * DigitVal(SubSeq(s, 3, 3))
      + DigitVal(SubSeq(s, 4, 4))

(***************************************************************************)
(* C29 - Launch precondition: for both tabs, the generator process is      *)
(* started only in a step that found the generator script, the background, *)
(* the coordinate file and the values file to exist and that saved the     *)
(* form's current field values to the values file; when one of those paths *)
(* is missing the click saves nothing and starts no process.               *)
(***************************************************************************)
C29_LaunchPrecondition ==
    [][\A t \in Tabs :
         /\ Launched(t) =>
              /\ Required(t) \subseteq exists
              /\ json_path(t) \in exists' /\ json'[t] = form[t]
         /\ (Refused /\ ~(Required(t) \subseteq exists)) =>
              /\ json' = json /\ exists' = exists
              /\ launches' = launches /\ cmd' = cmd]_vars

C29_Witness ==
    /\ launches = 1 /\ cmd[2] = GERA_TICKET
    /\ form["ticket"] = [origem |-> "Shelbyville"]
    /\ json["ticket"] = form["ticket"]
    /\ ~(Required("controle") \subseteq exists)
    /\ dialog = "Arquivos ausentes"

(***************************************************************************)
(* C30 - Form options reach the generator: when a generator is launched,   *)
(* the command line carries --invert-y exactly when that tab's invert-y    *)
(* check box is checked; for the ticket it carries --proof exactly when    *)
(* the proof check box is checked and, after --baseline-fix, the value     *)
(* shown in the spin box.                                                  *)
(***************************************************************************)
C30_OptionsReachGenerator ==
    [][\A t \in Tabs :
         Launched(t) =>
           /\ HasFlag(cmd', "--invert-y")
                <=> (IF t = "ticket" THEN opts.invertY_ticket ELSE opts.invertY_ctrl)
           /\ t = "ticket" =>
                /\ HasFlag(cmd', "--proof") <=> opts.proof
                /\ HasFlag(cmd', "--baseline-fix")
                /\ Hundredths(ArgOf(cmd', "--baseline-fix")) = opts.basefix]_vars

====
